---- MODULE Spec2Model ----
(***************************************************************************)
(* Route planner pages of UrbaniaAI (src/pages/Optimal_Route_Planner.py,   *)
(* called page "v1" below, and src/pages/ORP_v2.py, page "v2").            *)
(*                                                                         *)
(* Conventions of the model:                                               *)
(*   - a Python dict is a TLA+ record; a key the dict lacks is a field the *)
(*     record lacks (d.get(k) is Get(d, k, default));                      *)
(*   - a Python list or tuple is a sequence; None and every other falsy    *)
(*     value of a coordinate are the empty sequence <<>>;                  *)
(*   - a call that may raise returns [raised |-> BOOLEAN, value |-> ...];  *)
(*   - a coordinate is <<lat, lon>> in grid steps; a component that is not *)
(*     a number (a string such as "x") is the value NonNum.                *)
(***************************************************************************)
EXTENDS Integers, Sequences, FiniteSets, TLC

VARIABLES
    page,           \* which page runs: "v1" (Optimal_Route_Planner) or "v2" (ORP_v2)
    recs,           \* geospatial index: the record list under query
    ref,            \* geospatial index: the reference coordinate
    nearest_out,    \* geospatial index: outcome of the last find_closest call
    knearest_out,   \* geospatial index: outcome of the last k_closest call
    tp_route,       \* traffic estimator: the route argument, <<>> for None
    tp_records,     \* traffic estimator: the traffic_records argument
    penalty_out,    \* traffic estimator: outcome of the last traffic_penalty_seconds call
    total_out,      \* traffic estimator: outcome of the last add_penalty call
    hashseed,       \* iteration order of a set of str in this Python process
    parkings,       \* dataset: parking garages
    bikes,          \* dataset: Valenbisi stations
    traffic,        \* dataset: traffic segments
    buses,          \* dataset: EMT bus stops
    transport_mode, \* widget: "Walking", "Car", "Valenbisi", "Bus"
    use_parking,    \* widget: "Parking garage", "Street parking", or "None"
    start_point,    \* widget: start address
    end_point,      \* widget: end address
    pc,             \* position of the composition: "start", "select", "request",
                    \* "inspect", "done", "crashed" ("idle": no composition)
    start_coords,   \* geocode(start_point), <<>> for None
    end_coords,     \* geocode(end_point), <<>> for None
    sel,            \* the facilities chosen (parking, stations, stop pair and line)
    plan,           \* the get_route calls of the mode, in the order the code makes them
    responses,      \* what get_route returned for plan[1..], <<>> for None
    requests,       \* every get_route call made so far: [coords, profile]
    provider_calls, \* the calls that reached OpenRouteService (cache misses)
    route_cache,    \* st.cache_data of get_route: set of [req, resp]
    markers,        \* facility markers put on the map / in result["markers"]
    routes,         \* legs drawn on the map / in result["routes"]
    notice,         \* the notice string of the composition
    ui_errors,      \* st.error / st.warning messages shown while composing
    fault,          \* the exception that escaped the composition, "" for none
    session,        \* st.session_state of the route page: stored signature, map, notice
    run,            \* what this page run did at the rebuild guard
    runs,           \* page runs and process starts so far
    data_cache,     \* st.cache_data of get_route_data (v2): set of [args, result]
    composed,       \* history: the compositions that returned, with inputs and answers
    language,       \* chat map page: st.session_state.language
    history,        \* chat map page: st.session_state.history
    points,         \* chat map page: st.session_state.points
    chat_routes,    \* chat map page: st.session_state.routes
    chat_event      \* chat map page: the widget event the last run served

geo_vars == <<recs, ref, nearest_out, knearest_out>>

tp_vars == <<tp_route, tp_records, penalty_out, total_out>>

data_vars == <<parkings, bikes, traffic, buses>>

input_vars == <<transport_mode, use_parking, start_point, end_point>>

run_vars == <<pc, start_coords, end_coords, sel, plan, responses, requests,
              provider_calls, route_cache, markers, routes, notice, ui_errors, fault>>

sess_vars == <<session, run, runs, data_cache, composed>>

chat_vars == <<language, history, points, chat_routes, chat_event>>

vars == <<page, hashseed, geo_vars, tp_vars, data_vars, input_vars, run_vars, sess_vars,
          chat_vars>>

-----------------------------------------------------------------------------
(* Bounds of the model *)

\* longest record list handed to the geospatial index
MaxRecs == 3

\* largest explicit k tried besides the default
MaxK == 2

-----------------------------------------------------------------------------
(* Values *)

Pages == {"v1", "v2"}

None == <<>>

\* a coordinate component that is not a number
NonNum == -1

Lats == {0, 1, 2}

Lons == {0, 1}

\* well-formed coordinates (lat, lon)
Points == {<<la, lo>> : la \in Lats, lo \in Lons}

\* coordinate values a dataset may carry: empty list (falsy), wrong arity,
\* non-numeric components, well-formed
BadArity == <<1>>

BadNumber == <<NonNum, NonNum>>

CoordValues == {<<>>, BadArity, BadNumber} \cup Points

\* d.get(k, default)
Get(d, k, default) == IF k \in DOMAIN d THEN d[k] ELSE default

Min(a, b) == IF a <= b THEN a ELSE b

\* integer square root, rounded down
ISqrt(n) == CHOOSE r \in 0..n : r * r <= n /\ n < (r + 1) * (r + 1)

Abs(n) == IF n < 0 THEN 0 - n ELSE n

\* metres per grid step of latitude and of longitude
LatStep == 40

LonStep == 30

WellFormed(c) == Len(c) = 2 /\ c[1] # NonNum /\ c[2] # NonNum

\* geopy.distance.geodesic(a, b).meters: raises ValueError when a point cannot
\* be built from a or b (a single number, a non-numeric component)
geodesic(a, b) ==
    IF ~(WellFormed(a) /\ WellFormed(b))
    THEN [raised |-> TRUE, value |-> 0]
    ELSE [raised |-> FALSE,
          value |-> ISqrt((LatStep * Abs(a[1] - b[1])) * (LatStep * Abs(a[1] - b[1]))
                        + (LonStep * Abs(a[2] - b[2])) * (LonStep * Abs(a[2] - b[2])))]

-----------------------------------------------------------------------------
(* Geospatial index: find_closest *)

\* the guard on a record's coordinate before the distance is tried:
\* v1 `if coords and len(coords) == 2`, v2 `if coords`
coord_guard(pg, coords) ==
    IF pg = "v1" THEN coords # <<>> /\ Len(coords) = 2 ELSE coords # <<>>

\* closer with `<=` for `<`: the last of several nearest records would win
closer_or_equal(d, best_d) == best_d = <<>> \/ d <= best_d[1]

\* `d < best_d`, best_d starting at float("inf") (here <<>>)
closer(d, best_d) == best_d = <<>> \/ d < best_d[1]

\* one pass of the for loop of find_closest from record i on; best is None or
\* <<fields>>, best_d is <<>> (infinity) or <<d>>. The try/except around the
\* distance turns a raise into `continue`.
RECURSIVE fc_scan(_, _, _, _, _, _)
fc_scan(pg, records, ref_coords, i, best, best_d) ==
    IF i > Len(records) THEN best
    ELSE LET fields == Get(records[i], "fields", [nombre |-> ""])
             coords == Get(fields, "geo_point_2d", None)
             d      == geodesic(ref_coords, coords)
         IN  IF coord_guard(pg, coords) /\ ~d.raised /\ closer(d.value, best_d)
             THEN fc_scan(pg, records, ref_coords, i + 1, <<fields>>, <<d.value>>)
             ELSE fc_scan(pg, records, ref_coords, i + 1, best, best_d)

find_closest(pg, records, ref_coords) ==
    IF records = <<>> \/ ref_coords = <<>>
    THEN [raised |-> FALSE, value |-> None]
    ELSE [raised |-> FALSE, value |-> fc_scan(pg, records, ref_coords, 1, None, <<>>)]

-----------------------------------------------------------------------------
(* Geospatial index: k_closest *)

K_DEFAULT == 20

\* the filter loop that also leaves out the stops flagged as suppressed
RECURSIVE valid_records_not_suprimida(_)
valid_records_not_suprimida(records) ==
    IF records = <<>> THEN <<>>
    ELSE LET fields == Get(Head(records), "fields", [nombre |-> ""])
         IN  IF Get(fields, "geo_point_2d", None) # <<>> /\ Get(fields, "suprimida", 0) = 0
             THEN <<fields>> \o valid_records_not_suprimida(Tail(records))
             ELSE valid_records_not_suprimida(Tail(records))

\* the filter loop: the fields of every record whose geo_point_2d is truthy
RECURSIVE valid_records(_)
valid_records(records) ==
    IF records = <<>> THEN <<>>
    ELSE LET fields == Get(Head(records), "fields", [nombre |-> ""])
         IN  IF Get(fields, "geo_point_2d", None) # <<>>
             THEN <<fields>> \o valid_records(Tail(records))
             ELSE valid_records(Tail(records))

\* the key of nsmallest: geodesic(ref_coords, f["geo_point_2d"]).meters
dist_key(ref_coords, f) == geodesic(ref_coords, f["geo_point_2d"])

\* insertion before the elements of equal key: among equal keys the later wins
RECURSIVE insert_sorted_unstable(_, _, _)
insert_sorted_unstable(ref_coords, s, f) ==
    IF s = <<>> THEN <<f>>
    ELSE IF dist_key(ref_coords, Head(s)).value < dist_key(ref_coords, f).value
         THEN <<Head(s)>> \o insert_sorted_unstable(ref_coords, Tail(s), f)
         ELSE <<f>> \o s

\* insert f into the sorted sequence s after every element whose key is <= its own
RECURSIVE insert_sorted(_, _, _)
insert_sorted(ref_coords, s, f) ==
    IF s = <<>> THEN <<f>>
    ELSE IF dist_key(ref_coords, Head(s)).value <= dist_key(ref_coords, f).value
         THEN <<Head(s)>> \o insert_sorted(ref_coords, Tail(s), f)
         ELSE <<f>> \o s

\* sorted(valid, key=...): stable, ascending
RECURSIVE sorted_by_dist(_, _)
sorted_by_dist(ref_coords, s) ==
    IF s = <<>> THEN <<>>
    ELSE insert_sorted(ref_coords, sorted_by_dist(ref_coords, SubSeq(s, 1, Len(s) - 1)), s[Len(s)])

\* heapq.nsmallest(k, valid, key): the key is evaluated on every element (so a
\* raising key aborts the call); the result equals sorted(valid, key=key)[:k]
nsmallest(kk, valid, ref_coords) ==
    IF \E i \in 1..Len(valid) : dist_key(ref_coords, valid[i]).raised
    THEN [raised |-> TRUE, value |-> <<>>]
    ELSE [raised |-> FALSE,
          value |-> SubSeq(sorted_by_dist(ref_coords, valid), 1, Min(kk, Len(valid)))]

k_closest(records, ref_coords, kk) ==
    IF records = <<>> \/ ref_coords = <<>>
    THEN [raised |-> FALSE, value |-> <<>>]
    ELSE IF valid_records(records) = <<>>
         THEN [raised |-> FALSE, value |-> <<>>]
         ELSE nsmallest(kk, valid_records(records), ref_coords)

-----------------------------------------------------------------------------
(* Exact arithmetic for durations: a number is <<numerator, denominator>> in *)
(* lowest terms (the code computes in floats)                                *)

RECURSIVE GCD(_, _)
GCD(a, b) == IF b = 0 THEN a ELSE GCD(b, a % b)

Rat(n, d) == LET g == GCD(Abs(n), d) IN <<n \div g, d \div g>>

RatInt(n) == <<n, 1>>

RatAdd(x, y) == Rat(x[1] * y[2] + y[1] * x[2], x[2] * y[2])

RatLeq(x, y) == x[1] * y[2] <= y[1] * x[2]

RECURSIVE SumSeq(_)
SumSeq(s) == IF s = <<>> THEN 0 ELSE Head(s) + SumSeq(Tail(s))

\* a coordinate handed on as it is, latitude first
NotReversed(c) == c

\* seq[::-1]
Reverse(c) == [i \in 1..Len(c) |-> c[Len(c) + 1 - i]]

-----------------------------------------------------------------------------
(* Collaborators: geocoder and directions provider *)

\* geocode(address): (lat, lon), or None when the geocoder finds nothing or fails
geocode(address) ==
    CASE address = "A" -> <<1, 0>>
      [] address = "B" -> <<0, 1>>
      [] OTHER -> None

\* the GeoJSON a successful directions call returns
Route(path, dur) ==
    [features |-> <<[geometry   |-> [coordinates |-> path],
                     properties |-> [summary |-> [duration |-> dur]]]>>]

\* r["features"][0]["properties"]["summary"]["duration"]
duration_of(r) == r.features[1].properties.summary.duration

\* r["features"][0]["geometry"]["coordinates"]
path_of(r) == r.features[1].geometry.coordinates

Durations == {600, 900}

\* an intermediate point of a longer geometry, (lon, lat)
Waypoint == <<1, 2>>

\* the geometries the provider may answer with: the two end points, or (for a
\* driving request) six points of which only the first and last are sampled
Paths(coords, profile) ==
    {<<coords[1], coords[2]>>}
    \cup (IF profile = "driving-car"
          THEN {<<coords[1], Waypoint, Waypoint, Waypoint, Waypoint, coords[2]>>}
          ELSE {})

ProviderRoutes(coords, profile) ==
    {Route(p, d) : p \in Paths(coords, profile), d \in Durations}

Req(coords, profile) == [coords |-> coords, profile |-> profile]

-----------------------------------------------------------------------------
(* Traffic penalty estimator *)

STRIDE == 5

RADIUS_M == 50

Zero == <<0, 1>>

\* coords[::5]
subsample(coords) ==
    [i \in 1..((Len(coords) + STRIDE - 1) \div STRIDE) |-> coords[STRIDE * (i - 1) + 1]]

\* a str is a sequence of one-character strings
RECURSIVE lstrip(_)
lstrip(s) == IF s # <<>> /\ Head(s) = " " THEN lstrip(Tail(s)) ELSE s

RECURSIVE rstrip(_)
rstrip(s) == IF s # <<>> /\ s[Len(s)] = " " THEN rstrip(SubSeq(s, 1, Len(s) - 1)) ELSE s

\* str.strip()
strip(s) == rstrip(lstrip(s))

DigitChars == {"0", "1", "2", "3", "4", "5", "6", "7", "8", "9"}

DigitValue(c) ==
    CASE c = "0" -> 0 [] c = "1" -> 1 [] c = "2" -> 2 [] c = "3" -> 3 [] c = "4" -> 4
      [] c = "5" -> 5 [] c = "6" -> 6 [] c = "7" -> 7 [] c = "8" -> 8 [] OTHER -> 9

RECURSIVE digits_value(_)
digits_value(s) ==
    IF s = <<>> THEN 0 ELSE 10 * digits_value(SubSeq(s, 1, Len(s) - 1)) + DigitValue(s[Len(s)])

\* float(s) of a str: surrounding blanks are dropped, then an optional sign
\* and decimal digits give the number; any other spelling drawn here is a ValueError
float_of_str(s) ==
    LET t    == strip(s)
        body == IF t # <<>> /\ t[1] \in {"-", "+"} THEN Tail(t) ELSE t
    IN  IF body = <<>> \/ \E i \in 1..Len(body) : body[i] \notin DigitChars
        THEN [raised |-> "ValueError", value |-> 0]
        ELSE [raised |-> "",
              value  |-> IF t[1] = "-" THEN 0 - digits_value(body) ELSE digits_value(body)]

\* float(inten). fields["intensidad"] is a number unless fields["intensidad_type"]
\* names another JSON type: "str" (the value is then a str) or "list"
float_of(fields) ==
    IF "intensidad_type" \notin DOMAIN fields THEN [raised |-> "", value |-> fields.intensidad]
    ELSE IF fields.intensidad_type = "str" THEN float_of_str(fields.intensidad)
    ELSE [raised |-> "TypeError", value |-> 0]

\* the inner for loop `for lon, lat in coords[::5]` from sampled point i on:
\* "raise" when a point does not unpack or the distance raises, "hit" at the
\* first point within the radius (break), else "miss"
RECURSIVE sample_scan(_, _, _, _)
sample_scan(pts, i, tcoord, radius) ==
    IF i > Len(pts) THEN "miss"
    ELSE IF Len(pts[i]) # 2 THEN "raise"
    ELSE LET d == geodesic(<<pts[i][2], pts[i][1]>>, tcoord)
         IN  IF d.raised THEN "raise"
             ELSE IF d.value < radius THEN "hit"
             ELSE sample_scan(pts, i + 1, tcoord, radius)

sample_hits(coords, tcoord, radius) == sample_scan(subsample(coords), 1, tcoord, radius)

\* a record that is a dict (rec.get exists); any other JSON value is marked
is_dict(rec) == "not_a_dict" \notin DOMAIN rec

\* the loop over the traffic records without the `break`: a record is appended
\* once for every sampled point within the radius
RECURSIVE tp_scan_no_break(_, _, _, _)
tp_scan_no_break(coords, records, radius, intensities) ==
    IF records = <<>> THEN [raised |-> FALSE, value |-> intensities]
    ELSE IF ~is_dict(Head(records)) THEN [raised |-> TRUE, value |-> <<>>]
    ELSE LET fields == Get(Head(records), "fields", [nombre |-> ""])
             tcoord == Get(fields, "geo_point_2d", None)
         IN  IF tcoord # <<>> /\ "intensidad" \in DOMAIN fields
             THEN LET inten == float_of(fields)
                      hit   == sample_hits(coords, tcoord, radius)
                      pts   == subsample(coords)
                      near  == {i \in 1..Len(pts) :
                                   geodesic(<<pts[i][2], pts[i][1]>>, tcoord).value < radius}
                  IN  IF inten.raised = "ValueError"
                      THEN tp_scan_no_break(coords, Tail(records), radius, intensities)
                      ELSE IF inten.raised # "" \/ hit = "raise"
                      THEN [raised |-> TRUE, value |-> <<>>]
                      ELSE tp_scan_no_break(coords, Tail(records), radius,
                               intensities \o [k \in 1..Cardinality(near) |-> inten.value])
             ELSE tp_scan_no_break(coords, Tail(records), radius, intensities)

\* the for loop over the traffic records. An exception other than the
\* ValueError of float(inten) leaves the loop
RECURSIVE tp_scan(_, _, _, _)
tp_scan(coords, records, radius, intensities) ==
    IF records = <<>> THEN [raised |-> FALSE, value |-> intensities]
    ELSE IF ~is_dict(Head(records)) THEN [raised |-> TRUE, value |-> <<>>]
    ELSE LET fields == Get(Head(records), "fields", [nombre |-> ""])
             tcoord == Get(fields, "geo_point_2d", None)
         IN  IF tcoord # <<>> /\ "intensidad" \in DOMAIN fields
             THEN LET inten == float_of(fields)
                      hit   == sample_hits(coords, tcoord, radius)
                  IN  IF inten.raised = "ValueError"
                      THEN tp_scan(coords, Tail(records), radius, intensities)
                      ELSE IF inten.raised # "" \/ hit = "raise"
                      THEN [raised |-> TRUE, value |-> <<>>]
                      ELSE IF hit = "hit"
                           THEN tp_scan(coords, Tail(records), radius,
                                        Append(intensities, inten.value))
                           ELSE tp_scan(coords, Tail(records), radius, intensities)
             ELSE tp_scan(coords, Tail(records), radius, intensities)

\* route_geojson["features"][0]["geometry"]["coordinates"]: KeyError or
\* IndexError when a level is missing
route_coords(r) ==
    IF "features" \notin DOMAIN r THEN [raised |-> TRUE, value |-> <<>>]
    ELSE IF r.features = <<>> THEN [raised |-> TRUE, value |-> <<>>]
    ELSE IF "geometry" \notin DOMAIN r.features[1] THEN [raised |-> TRUE, value |-> <<>>]
    ELSE [raised |-> FALSE, value |-> r.features[1].geometry.coordinates]

\* the body of the try block: the mean of the matched intensities / 100 * 60
tp_try(route, traffic_records) ==
    LET coords == route_coords(route[1])
    IN  IF coords.raised THEN [raised |-> TRUE, value |-> Zero]
        ELSE LET scan == tp_scan(coords.value, traffic_records, RADIUS_M, <<>>)
             IN  IF scan.raised THEN [raised |-> TRUE, value |-> Zero]
                 ELSE IF scan.value = <<>> THEN [raised |-> FALSE, value |-> Zero]
                 ELSE [raised |-> FALSE,
                       value  |-> Rat(SumSeq(scan.value) * 60, Len(scan.value) * 100)]

\* a try block with no except clause
uncaught(body) == body

\* except Exception: return 0
caught(body) == IF body.raised THEN [raised |-> FALSE, value |-> Zero] ELSE body

\* the call as a whole. route is <<>> (None, {}) or <<geojson>>; traffic_records
\* is a list, <<>> also standing for None
tp_outcome(pg, route, traffic_records) ==
    IF route = <<>> THEN [raised |-> FALSE, value |-> Zero]
    ELSE IF pg = "v1" /\ traffic_records = <<>> THEN [raised |-> FALSE, value |-> Zero]
    ELSE IF pg = "v2" /\ "features" \notin DOMAIN route[1] THEN [raised |-> FALSE, value |-> Zero]
    ELSE caught(tp_try(route, traffic_records))

\* the value returned, in seconds
traffic_penalty_seconds(pg, route, traffic_records) ==
    tp_outcome(pg, route, traffic_records).value

\* add_penalty that returns the base duration as the total
add_penalty_dropped(pg, drive_route, base_seconds, traffic_records) ==
    LET penalty == traffic_penalty_seconds(pg, drive_route, traffic_records)
    IN  [total |-> RatInt(base_seconds), penalty |-> penalty]

\* add_penalty(drive_route, base_seconds): (total_seconds, penalty_seconds)
add_penalty(pg, drive_route, base_seconds, traffic_records) ==
    LET penalty == traffic_penalty_seconds(pg, drive_route, traffic_records)
    IN  [total |-> RatAdd(RatInt(base_seconds), penalty), penalty |-> penalty]

-----------------------------------------------------------------------------
(* Bus pairing selector *)

\* str.split(","), cur being the piece under construction
RECURSIVE split_comma(_, _)
split_comma(s, cur) ==
    IF s = <<>> THEN <<cur>>
    ELSE IF Head(s) = ","
         THEN <<cur>> \o split_comma(Tail(s), <<>>)
         ELSE split_comma(Tail(s), Append(cur, Head(s)))

\* a "lineas" that is JSON null, hence None and no str: it has no split
NULL_LINEAS == <<"null">>

\* stop.get("lineas", "") is a str
lineas_is_str(stop) == Get(stop, "lineas", <<>>) # NULL_LINEAS

\* {l.strip() for l in stop.get("lineas", "").split(",") if l.strip()}
line_set(stop) ==
    LET parts == split_comma(Get(stop, "lineas", <<>>), <<>>)
    IN  {strip(parts[i]) : i \in {j \in 1..Len(parts) : strip(parts[j]) # <<>>}}

\* common_lines with `|` for `&`: the lines of either stop
either_lines(stop_a, stop_b) == line_set(stop_a) \cup line_set(stop_b)

common_lines(stop_a, stop_b) == line_set(stop_a) \cap line_set(stop_b)

\* common_lines(stop_a, stop_b) raises AttributeError at .split
common_lines_raises(stop_a, stop_b) == ~lineas_is_str(stop_a) \/ ~lineas_is_str(stop_b)

\* next(iter(lines)): the member this process iterates first
first_of(seed, lines) ==
    LET idx == {i \in 1..Len(seed) : seed[i] \in lines}
    IN  seed[CHOOSE i \in idx : \A j \in idx : i <= j]

\* geodesic(start, s).meters + geodesic(end, e).meters
walk_score(sc, ec, s, e) ==
    geodesic(sc, s.geo_point_2d).value + geodesic(ec, e.geo_point_2d).value

\* better_pair with `>` for `<`: the longest walk would win
worse_pair(score, best) == best = <<>> \/ score > best[1].score

\* `walk_score < best_score`, best being <<>> while best_score is float("inf")
better_pair(score, best) == best = <<>> \/ score < best[1].score

\* the nested for loops over start_cand x end_cand from pair number n on
\* (pair n is start_cand[n \div len + 1], end_cand[n % len + 1])
RECURSIVE pair_scan(_, _, _, _, _, _, _)
pair_scan(seed, sc, ec, start_cand, end_cand, n, best) ==
    IF n >= Len(start_cand) * Len(end_cand) THEN best
    ELSE LET s     == start_cand[(n \div Len(end_cand)) + 1]
             e     == end_cand[(n % Len(end_cand)) + 1]
             lines == common_lines(s, e)
         IN  IF lines # {} /\ better_pair(walk_score(sc, ec, s, e), best)
             THEN pair_scan(seed, sc, ec, start_cand, end_cand, n + 1,
                            <<[pair  |-> <<s, e>>,
                               line  |-> first_of(seed, lines),
                               score |-> walk_score(sc, ec, s, e)]>>)
             ELSE pair_scan(seed, sc, ec, start_cand, end_cand, n + 1, best)

\* the nested loops visit every pair, so they raise when common_lines does on any
pair_scan_raises(start_cand, end_cand) ==
    \E i \in 1..Len(start_cand), j \in 1..Len(end_cand) :
        common_lines_raises(start_cand[i], end_cand[j])

-----------------------------------------------------------------------------
(* Route composer: notices, markers, legs *)

\* a notice: its fixed text and the figures formatted into it ("(!)" stands for
\* the warning sign; the minutes shown are total / 60 to one decimal)
Msg(text) == [text |-> text, total |-> <<>>, penalty |-> <<>>, line |-> <<>>]

EmptyNotice == Msg("")

Marker(coords, tooltip, color) == [coords |-> coords, tooltip |-> tooltip, color |-> color]

\* a drawn route: r is <<geojson>>
Leg(r, color, name) == [geojson |-> r[1], color |-> color, name |-> name]

NoSel == [kind |-> "none"]

Planned(s, ms, reqs) ==
    [outcome |-> "plan", sel |-> s, markers |-> ms, plan |-> reqs, notice |-> EmptyNotice]

\* a no-solution outcome that still puts a marker and asks for the direct route
Failed_after_request(text) ==
    [outcome |-> "plan", sel |-> NoSel,
     markers |-> <<Marker(<<0, 0>>, "Nearest", "blue")>>,
     plan |-> <<Req(<<<<0, 1>>, <<1, 0>>>>, "foot-walking")>>, notice |-> Msg(text)]

Failed(text) ==
    [outcome |-> "fail", sel |-> NoSel, markers |-> <<>>, plan |-> <<>>, notice |-> Msg(text)]

Raised(what) ==
    [outcome |-> "raise", sel |-> NoSel, markers |-> <<>>, plan |-> <<>>, notice |-> Msg(what)]

\* Car, "Parking garage": nearest parking to the destination, then drive + walk
select_car_garage(pg, parks, sc, ec) ==
    LET parking == find_closest(pg, parks, ec).value
    IN  IF parking # None /\ (pg = "v2" \/ Get(parking[1], "geo_point_2d", None) # <<>>)
        THEN Planned([kind |-> "parking", parking |-> parking[1]],
                     <<Marker(parking[1].geo_point_2d, "Nearest Parking Garage", "blue")>>,
                     <<Req(<<Reverse(sc), Reverse(parking[1].geo_point_2d)>>, "driving-car"),
                       Req(<<Reverse(parking[1].geo_point_2d), Reverse(ec)>>, "foot-walking")>>)
        ELSE Failed(IF pg = "v1" THEN "(!) No parking garages found near destination"
                    ELSE "No parking garage found near destination")

\* Car, street parking: one driving leg
select_car_street(pg, sc, ec) ==
    Planned(NoSel, <<>>, <<Req(<<Reverse(sc), Reverse(ec)>>, "driving-car")>>)

\* select_valenbisi returning the pickup station as the return station too
select_valenbisi_one_station(pg, stations, sc, ec) ==
    LET st_start == find_closest(pg, stations, sc).value
    IN  IF st_start # None
        THEN Planned([kind |-> "stations", st_start |-> st_start[1], st_end |-> st_start[1]],
                     <<Marker(st_start[1].geo_point_2d, "Bike pickup", "orange"),
                       Marker(st_start[1].geo_point_2d, "Bike dropoff", "purple")>>,
                     <<Req(<<Reverse(sc), Reverse(st_start[1].geo_point_2d)>>, "foot-walking"),
                       Req(<<Reverse(st_start[1].geo_point_2d), Reverse(st_start[1].geo_point_2d)>>,
                           "cycling-regular"),
                       Req(<<Reverse(st_start[1].geo_point_2d), Reverse(ec)>>, "foot-walking")>>)
        ELSE Failed(IF pg = "v1" THEN "(!) No Valenbisi stations found near start/end points"
                    ELSE "No Valenbisi stations found near start/end points")

\* Valenbisi: nearest station to the start and to the end
select_valenbisi(pg, stations, sc, ec) ==
    LET st_start == find_closest(pg, stations, sc).value
        st_end   == find_closest(pg, stations, ec).value
    IN  IF /\ st_start # None
           /\ st_end # None
           /\ (pg = "v2" \/ (/\ Get(st_start[1], "geo_point_2d", None) # <<>>
                             /\ Get(st_end[1], "geo_point_2d", None) # <<>>))
        THEN Planned([kind |-> "stations", st_start |-> st_start[1], st_end |-> st_end[1]],
                     <<Marker(st_start[1].geo_point_2d,
                              IF pg = "v1" THEN "Bike Pickup Station" ELSE "Bike pickup", "orange"),
                       Marker(st_end[1].geo_point_2d,
                              IF pg = "v1" THEN "Bike Return Station" ELSE "Bike dropoff", "purple")>>,
                     <<Req(<<Reverse(sc), Reverse(st_start[1].geo_point_2d)>>, "foot-walking"),
                       Req(<<Reverse(st_start[1].geo_point_2d), Reverse(st_end[1].geo_point_2d)>>,
                           "cycling-regular"),
                       Req(<<Reverse(st_end[1].geo_point_2d), Reverse(ec)>>, "foot-walking")>>)
        ELSE Failed(IF pg = "v1" THEN "(!) No Valenbisi stations found near start/end points"
                    ELSE "No Valenbisi stations found near start/end points")

\* Walking: one walking leg
select_walking(pg, sc, ec) ==
    Planned(NoSel, <<>>, <<Req(<<Reverse(sc), Reverse(ec)>>, "foot-walking")>>)

\* Bus: candidates, best line-sharing pair, then walk + walk + bus (driving profile)
select_bus(pg, seed, stops, sc, ec) ==
    LET start_cand == k_closest(stops, sc, K_DEFAULT)
        end_cand   == k_closest(stops, ec, K_DEFAULT)
    IN  IF start_cand.raised \/ end_cand.raised THEN Raised("ValueError")
        ELSE IF start_cand.value = <<>> \/ end_cand.value = <<>>
        THEN Failed(IF pg = "v1" THEN "(!) No bus stops found near start/end points"
                    ELSE "No bus stops found near start/end points")
        ELSE IF pair_scan_raises(start_cand.value, end_cand.value) THEN Raised("AttributeError")
        ELSE LET best == pair_scan(seed, sc, ec, start_cand.value, end_cand.value, 0, <<>>)
             IN  IF best = <<>>
                 THEN Failed(IF pg = "v1"
                             THEN "(!) No direct bus line found between nearby stops"
                             ELSE "No bus line connects stops near origin and destination")
                 ELSE LET stop_start == best[1].pair[1]
                          stop_end   == best[1].pair[2]
                      IN  Planned([kind |-> "stops", stop_start |-> stop_start,
                                   stop_end |-> stop_end, line |-> best[1].line,
                                   score |-> best[1].score],
                                  <<Marker(stop_start.geo_point_2d,
                                           IF pg = "v1" THEN "Start Bus Stop - Line"
                                           ELSE "Start stop - LINE", "lightblue"),
                                    Marker(stop_end.geo_point_2d,
                                           IF pg = "v1" THEN "End Bus Stop - Line"
                                           ELSE "End stop - LINE", "lightblue")>>,
                                  <<Req(<<Reverse(sc), Reverse(stop_start.geo_point_2d)>>,
                                        "foot-walking"),
                                    Req(<<Reverse(stop_end.geo_point_2d), Reverse(ec)>>,
                                        "foot-walking"),
                                    Req(<<Reverse(stop_start.geo_point_2d),
                                          Reverse(stop_end.geo_point_2d)>>, "driving-car")>>)

\* the branch of the mode dispatch
select(pg, seed, mode, sub, parks, stations, stops, sc, ec) ==
    CASE mode = "Car" /\ sub = "Parking garage" -> select_car_garage(pg, parks, sc, ec)
      [] mode = "Car" /\ sub # "Parking garage" -> select_car_street(pg, sc, ec)
      [] mode = "Valenbisi" -> select_valenbisi(pg, stations, sc, ec)
      [] mode = "Walking" -> select_walking(pg, sc, ec)
      [] mode = "Bus" -> select_bus(pg, seed, stops, sc, ec)
      [] OTHER -> Planned(NoSel, <<>>, <<>>)

\* the wait added to a bus journey: v1 `+ 420`, v2 `+ 7 * 60`
BUS_WAIT_V1 == 420

bus_wait(pg) == IF pg = "v1" THEN BUS_WAIT_V1 ELSE 7 * 60

Shown(routes_, notice_) == [routes |-> routes_, notice |-> notice_]

Figures(text, total, penalty, line) ==
    [text |-> text, total |-> total, penalty |-> penalty, line |-> line]

\* what v1 says when a leg is missing; v2 has no such branch and says nothing
leg_failure(pg, text, line) ==
    IF pg = "v1" THEN Figures(text, <<>>, <<>>, line) ELSE EmptyNotice

\* finish_car_garage with the penalty taken over the walking leg
finish_car_garage_walk_penalty(pg, resp, traffic_records) ==
    IF resp[1] # <<>> /\ resp[2] # <<>>
    THEN LET secs_drive == duration_of(resp[1][1])
             secs_walk  == duration_of(resp[2][1])
             tp         == add_penalty(pg, resp[2], secs_drive + secs_walk, traffic_records)
         IN  Shown(<<Leg(resp[1], "blue", "Driving"), Leg(resp[2], "green", "Walking")>>,
                   Figures("Total time (traffic penalty)", tp.total, tp.penalty, <<>>))
    ELSE Shown(<<>>, leg_failure(pg, "(!) Could not calculate route to parking garage", <<>>))

finish_car_garage(pg, resp, traffic_records) ==
    IF resp[1] # <<>> /\ resp[2] # <<>>
    THEN LET secs_drive == duration_of(resp[1][1])
             secs_walk  == duration_of(resp[2][1])
             tp         == add_penalty(pg, resp[1], secs_drive + secs_walk, traffic_records)
         IN  Shown(<<Leg(resp[1], "blue", IF pg = "v1" THEN "Driving" ELSE "Drive to parking"),
                     Leg(resp[2], "green", IF pg = "v1" THEN "Walking" ELSE "Walk to destination")>>,
                   Figures(IF pg = "v1" THEN "Total time (traffic penalty)"
                           ELSE "Est. total time (traffic)", tp.total, tp.penalty, <<>>))
    ELSE Shown(<<>>, leg_failure(pg, "(!) Could not calculate route to parking garage", <<>>))

finish_car_street(pg, resp, traffic_records) ==
    IF resp[1] # <<>>
    THEN LET tp == add_penalty(pg, resp[1], duration_of(resp[1][1]), traffic_records)
         IN  Shown(<<Leg(resp[1], "blue", IF pg = "v1" THEN "Driving" ELSE "Driving route")>>,
                   Figures(IF pg = "v1" THEN "Driving time (traffic penalty)"
                           ELSE "Est. driving time (traffic)", tp.total, tp.penalty, <<>>))
    ELSE Shown(<<>>, leg_failure(pg, "(!) Could not calculate driving route", <<>>))

\* finish_valenbisi drawing whatever legs came back
finish_valenbisi_partial(pg, resp) ==
    Shown((IF resp[1] # <<>> THEN <<Leg(resp[1], "green", "Walk to bike")>> ELSE <<>>)
          \o (IF resp[2] # <<>> THEN <<Leg(resp[2], "orange", "Cycling")>> ELSE <<>>)
          \o (IF resp[3] # <<>> THEN <<Leg(resp[3], "green", "Walk from bike")>> ELSE <<>>),
          leg_failure(pg, "(!) Could not calculate Valenbisi route", <<>>))

finish_valenbisi(pg, resp) ==
    IF resp[1] # <<>> /\ resp[2] # <<>> /\ resp[3] # <<>>
    THEN LET dur == duration_of(resp[1][1]) + duration_of(resp[2][1]) + duration_of(resp[3][1])
         IN  Shown(<<Leg(resp[1], "green", "Walk to bike"),
                     Leg(resp[2], "orange", IF pg = "v1" THEN "Cycling" ELSE "Bike route"),
                     Leg(resp[3], "green", "Walk from bike")>>,
                   Figures(IF pg = "v1" THEN "Total time" ELSE "Estimated total time",
                           RatInt(dur), <<>>, <<>>))
    ELSE Shown(<<>>, leg_failure(pg, "(!) Could not calculate Valenbisi route", <<>>))

\* finish_walking with the bus wait added to the total
finish_walking_with_wait(pg, resp) ==
    IF resp[1] # <<>>
    THEN Shown(<<Leg(resp[1], "green", "Walking")>>,
               Figures("Walking time", RatInt(duration_of(resp[1][1]) + bus_wait(pg)),
                       <<>>, <<>>))
    ELSE Shown(<<>>, leg_failure(pg, "(!) Could not calculate walking route", <<>>))

finish_walking(pg, resp) ==
    IF resp[1] # <<>>
    THEN Shown(<<Leg(resp[1], "green", IF pg = "v1" THEN "Walking" ELSE "Walking route")>>,
               Figures(IF pg = "v1" THEN "Walking time" ELSE "Estimated walking time",
                       RatInt(duration_of(resp[1][1])), <<>>, <<>>))
    ELSE Shown(<<>>, leg_failure(pg, "(!) Could not calculate walking route", <<>>))

\* resp is <<walk1, walk2, bus_r>>, the order of the calls; the legs are
\* drawn / listed walk1, walk2, bus_r
finish_bus(pg, resp, line) ==
    IF resp[1] # <<>> /\ resp[3] # <<>> /\ resp[2] # <<>>
    THEN LET total_time == duration_of(resp[1][1]) + duration_of(resp[2][1])
                           + duration_of(resp[3][1]) + bus_wait(pg)
         IN  Shown(<<Leg(resp[1], "green", "Walk to bus"),
                     Leg(resp[2], "green", "Walk from bus"),
                     Leg(resp[3], "red", IF pg = "v1" THEN "Bus Line" ELSE "Linea")>>,
                   Figures(IF pg = "v1" THEN "Total time with Line (includes 7 min wait)"
                           ELSE "Estimated time with line", RatInt(total_time), <<>>, <<line>>))
    ELSE Shown(<<>>, leg_failure(pg, "(!) Could not calculate complete bus route for Line",
                                 <<line>>))

\* the `if r1 and r2:` ... part of the branch of the mode
finish(pg, mode, sub, chosen, resp, traffic_records) ==
    CASE mode = "Car" /\ sub = "Parking garage" -> finish_car_garage(pg, resp, traffic_records)
      [] mode = "Car" /\ sub # "Parking garage" -> finish_car_street(pg, resp, traffic_records)
      [] mode = "Valenbisi" -> finish_valenbisi(pg, resp)
      [] mode = "Walking" -> finish_walking(pg, resp)
      [] mode = "Bus" -> finish_bus(pg, resp, chosen.line)
      [] OTHER -> Shown(<<>>, EmptyNotice)

-----------------------------------------------------------------------------
(* How the page displays the notice *)

\* the notices in which v1 finds the warning sign or "Error:"
V1_WARNING_TEXTS ==
    {"(!) No parking garages found near destination",
     "(!) Could not calculate route to parking garage",
     "(!) Could not calculate driving route",
     "(!) No Valenbisi stations found near start/end points",
     "(!) Could not calculate Valenbisi route",
     "(!) Could not calculate walking route",
     "(!) No bus stops found near start/end points",
     "(!) No direct bus line found between nearby stops",
     "(!) Could not calculate complete bus route for Line",
     "Error: Could not geocode start address",
     "Error: Could not geocode end address"}

\* the notices in which v2 finds "Error" or "Unable"
V2_ERROR_TEXTS == {"Error calculating route", "Unable to geocode one of the addresses."}

\* the widget that displays the notice: none for an empty notice
shown_as(pg, text) ==
    IF text = "" THEN "nothing"
    ELSE IF pg = "v1"
         THEN IF text \in V1_WARNING_TEXTS THEN "st.warning" ELSE "st.success"
         ELSE IF text \in V2_ERROR_TEXTS THEN "st.error" ELSE "st.success"

-----------------------------------------------------------------------------
(* The composition, step by step: build_map() of v1, get_route_data() and   *)
(* the head of build_map_from_data() of v2                                   *)

\* geocode both addresses; a miss ends the composition
Geocode ==
    /\ pc = "start"
    /\ start_coords' = geocode(start_point)
    /\ end_coords' = geocode(end_point)
    /\ IF page = "v1"
       THEN IF geocode(start_point) = None
            THEN /\ ui_errors' = Append(ui_errors, "Could not find location: start")
                 /\ notice' = Msg("Error: Could not geocode start address")
                 /\ pc' = "done"
                 /\ fault' = fault
            ELSE IF geocode(end_point) = None
            THEN /\ ui_errors' = Append(ui_errors, "Could not find location: end")
                 /\ notice' = Msg("Error: Could not geocode end address")
                 /\ pc' = "done"
                 /\ fault' = fault
            ELSE /\ pc' = "select"
                 /\ UNCHANGED <<ui_errors, notice, fault>>
       ELSE IF geocode(start_point) = None \/ geocode(end_point) = None
            \* get_route_data returns {"error", "start_coords", "end_coords"};
            \* build_map_from_data then reads route_data["notice"]
            THEN /\ pc' = "crashed"
                 /\ fault' = "KeyError: 'notice'"
                 /\ UNCHANGED <<ui_errors, notice>>
            ELSE /\ pc' = "select"
                 /\ UNCHANGED <<ui_errors, notice, fault>>
    /\ UNCHANGED <<sess_vars, chat_vars, page, hashseed, geo_vars, tp_vars, data_vars, input_vars, sel, plan, responses,
                   requests, provider_calls, route_cache, markers, routes>>

\* choose the facilities of the mode, put their markers, fix the calls to make
Select ==
    /\ pc = "select"
    /\ LET c == select(page, hashseed, transport_mode, use_parking, parkings, bikes, buses,
                       start_coords, end_coords)
       IN  /\ sel' = c.sel
           /\ markers' = c.markers
           /\ plan' = c.plan
           /\ IF c.outcome = "plan"
              THEN /\ pc' = "request"
                   /\ UNCHANGED <<notice, fault>>
              ELSE IF c.outcome = "fail"
              THEN /\ pc' = "done"
                   /\ notice' = c.notice
                   /\ fault' = fault
              \* an exception: v1 lets it escape, v2 catches it in get_route_data
              ELSE IF page = "v1"
              THEN /\ pc' = "crashed"
                   /\ fault' = c.notice.text
                   /\ notice' = notice
              ELSE /\ pc' = "done"
                   /\ notice' = Msg("Error calculating route")
                   /\ fault' = fault
    /\ UNCHANGED <<sess_vars, chat_vars, page, hashseed, geo_vars, tp_vars, data_vars, input_vars, start_coords, end_coords,
                   responses, requests, provider_calls, route_cache, routes, ui_errors>>

\* st.cache_data entry of get_route for a request, as a set
cached(cache, req) == {e \in cache : e.req = req}

route_error(pg) == IF pg = "v1" THEN "Error getting route" ELSE "Route calculation error"

\* the next get_route call of the plan: the cached value (its st.error replayed),
\* else what the provider answers, an exception giving st.error and None
RequestLeg ==
    /\ pc = "request"
    /\ Len(responses) < Len(plan)
    /\ LET req == plan[Len(responses) + 1]
       IN  /\ requests' = Append(requests, req)
           /\ IF cached(route_cache, req) # {}
              THEN /\ responses' = Append(responses, (CHOOSE e \in cached(route_cache, req) : TRUE).resp)
                   /\ UNCHANGED <<provider_calls, route_cache>>
              ELSE /\ \E resp \in {None} \cup {<<r>> : r \in ProviderRoutes(req.coords, req.profile)} :
                         /\ responses' = Append(responses, resp)
                         /\ route_cache' = route_cache \cup {[req |-> req, resp |-> resp]}
                   /\ provider_calls' = Append(provider_calls, req)
           /\ ui_errors' = IF responses'[Len(responses')] = None
                           THEN Append(ui_errors, route_error(page))
                           ELSE ui_errors
    /\ pc' = IF Len(responses) + 1 = Len(plan) THEN "inspect" ELSE "request"
    /\ UNCHANGED <<sess_vars, chat_vars, page, hashseed, geo_vars, tp_vars, data_vars, input_vars, start_coords, end_coords,
                   sel, plan, markers, routes, notice, fault>>

\* the look at the answers with a traffic scan that pops the records it reads
Inspect_draining ==
    /\ pc = "inspect"
    /\ LET out == finish(page, transport_mode, use_parking, sel, responses, traffic)
       IN  /\ routes' = out.routes
           /\ notice' = out.notice
    /\ pc' = "done"
    /\ traffic' = <<>>
    /\ UNCHANGED <<sess_vars, chat_vars, page, hashseed, geo_vars, tp_vars, parkings, bikes,
                   buses, input_vars, start_coords, end_coords, sel, plan, responses,
                   requests, provider_calls, route_cache, markers, ui_errors, fault>>

\* look at the answers: all there gives the legs and the total, else no leg
Inspect ==
    /\ pc = "inspect"
    /\ LET out == finish(page, transport_mode, use_parking, sel, responses, traffic)
       IN  /\ routes' = out.routes
           /\ notice' = out.notice
    /\ pc' = "done"
    /\ UNCHANGED <<sess_vars, chat_vars, page, hashseed, geo_vars, tp_vars, data_vars, input_vars, start_coords, end_coords,
                   sel, plan, responses, requests, provider_calls, route_cache, markers,
                   ui_errors, fault>>

-----------------------------------------------------------------------------
(* Datasets and inputs *)

\* longest parking and station list
MaxFacilities == 2

\* longest bus stop list
MaxStops == 2

\* longest traffic record list
MaxTraffic == 2

Names == <<"n1", "n2", "n3", "n4">>

\* coordinates of parkings, stations and stops
FacilityCoords == {BadArity, <<0, 0>>, <<2, 0>>, <<1, 1>>}

FacilityAt(i) ==
    {[fields |-> [nombre |-> Names[i]]]}
    \cup {[fields |-> [nombre |-> Names[i], geo_point_2d |-> c]] : c \in FacilityCoords}

RECURSIVE FacilityListsOfLen(_)
FacilityListsOfLen(n) ==
    IF n = 0 THEN {<<>>}
    ELSE {Append(s, r) : s \in FacilityListsOfLen(n - 1), r \in FacilityAt(n)}

FacilityLists == UNION {FacilityListsOfLen(n) : n \in 0..MaxFacilities}

\* the "lineas" strings of the stops: "a", "b", "b , a"
LineStrings == {<<"a">>, <<"b">>, <<"b", " ", ",", " ", "a">>}

StopCoords == {BadArity, <<0, 0>>, <<1, 1>>}

StopAt(i) ==
    {[fields |-> [denominacion |-> Names[i]]]}
    \cup {[fields |-> [denominacion |-> Names[i], geo_point_2d |-> c]] : c \in StopCoords}
    \cup {[fields |-> [denominacion |-> Names[i], geo_point_2d |-> c, lineas |-> l]] :
             c \in StopCoords \ {BadArity}, l \in LineStrings}
    \cup {[fields |-> [denominacion |-> Names[i], geo_point_2d |-> <<1, 1>>,
                       lineas |-> NULL_LINEAS]]}

RECURSIVE StopListsOfLen(_)
StopListsOfLen(n) ==
    IF n = 0 THEN {<<>>}
    ELSE {Append(s, r) : s \in StopListsOfLen(n - 1), r \in StopAt(n)}

StopLists == UNION {StopListsOfLen(n) : n \in 0..MaxStops}

TrafficCoords == {<<1, 1>>, <<0, 1>>, <<2, 1>>}

Intensities == {100, 300}

TrafficAt(i) ==
    {[fields |-> [geo_point_2d |-> c, intensidad |-> x]] : c \in TrafficCoords, x \in Intensities}

RECURSIVE TrafficListsOfLen(_)
TrafficListsOfLen(n) ==
    IF n = 0 THEN {<<>>}
    ELSE {Append(s, r) : s \in TrafficListsOfLen(n - 1), r \in TrafficAt(n)}

TrafficLists == UNION {TrafficListsOfLen(n) : n \in 0..MaxTraffic}

\* the orders in which a set of line names may be iterated
Seeds == {<<<<"a">>, <<"b">>>>, <<<<"b">>, <<"a">>>>}

\* a dataset the mode under study does not read
SampleFacilities == <<[fields |-> [nombre |-> "n1", geo_point_2d |-> <<0, 0>>]]>>

SampleStops ==
    <<[fields |-> [denominacion |-> "n1", geo_point_2d |-> <<0, 0>>, lineas |-> <<"a">>]]>>

SampleTraffic == <<[fields |-> [geo_point_2d |-> <<1, 1>>, intensidad |-> 100]]>>

StartAddresses == {"A", "X"}

EndAddresses == {"A", "B", "X"}

NotCalled == [called |-> FALSE]

GeoIdle ==
    /\ recs = <<>>
    /\ ref = <<0, 0>>
    /\ nearest_out = NotCalled
    /\ knearest_out = NotCalled

TpIdle ==
    /\ tp_route = <<>>
    /\ tp_records = <<>>
    /\ penalty_out = NotCalled
    /\ total_out = NotCalled

NoSession == [key |-> <<>>, map |-> <<>>, notice |-> ""]

SessIdle ==
    /\ session = NoSession
    /\ run = "none"
    /\ runs = 0
    /\ data_cache = {}
    /\ composed = {}

ChatIdle ==
    /\ language = "es"
    /\ history = <<>>
    /\ points = <<>>
    /\ chat_routes = <<>>
    /\ chat_event = "none"

\* the datasets, rich in the ones the chosen mode reads
ModeAndData ==
    \/ /\ transport_mode = "Walking" /\ use_parking = "None"
       /\ parkings = SampleFacilities /\ bikes = SampleFacilities
       /\ buses = SampleStops /\ traffic = SampleTraffic /\ hashseed = <<<<"a">>, <<"b">>>>
    \/ /\ transport_mode = "Car" /\ use_parking = "Street parking"
       /\ parkings = SampleFacilities /\ bikes = SampleFacilities
       /\ buses = SampleStops /\ traffic \in TrafficLists /\ hashseed = <<<<"a">>, <<"b">>>>
    \/ /\ transport_mode = "Car" /\ use_parking = "Parking garage"
       /\ parkings \in FacilityLists /\ bikes = SampleFacilities
       /\ buses = SampleStops /\ traffic \in {<<>>, SampleTraffic} /\ hashseed = <<<<"a">>, <<"b">>>>
    \/ /\ transport_mode = "Valenbisi" /\ use_parking = "None"
       /\ parkings = SampleFacilities /\ bikes \in FacilityLists
       /\ buses = SampleStops /\ traffic = SampleTraffic /\ hashseed = <<<<"a">>, <<"b">>>>
    \/ /\ transport_mode = "Bus" /\ use_parking = "None"
       /\ parkings = SampleFacilities /\ bikes = SampleFacilities
       /\ buses \in StopLists /\ traffic = SampleTraffic /\ hashseed \in Seeds

RunIdle(at) ==
    /\ pc = at
    /\ start_coords = None /\ end_coords = None
    /\ sel = NoSel /\ plan = <<>> /\ responses = <<>>
    /\ requests = <<>> /\ provider_calls = <<>> /\ route_cache = {}
    /\ markers = <<>> /\ routes = <<>>
    /\ notice = EmptyNotice /\ ui_errors = <<>> /\ fault = ""

\* one composition: the page, the datasets and the widgets are given
Init ==
    /\ page \in Pages
    /\ GeoIdle
    /\ TpIdle
    /\ SessIdle
    /\ ChatIdle
    /\ ModeAndData
    /\ start_point \in StartAddresses
    /\ end_point \in EndAddresses
    /\ RunIdle("start")

Next == Geocode \/ Select \/ RequestLeg \/ Inspect

Spec == Init /\ [][Next]_vars

-----------------------------------------------------------------------------
(* The page across runs: the rebuild guard and st.session_state             *)

\* most page runs and process starts of one behaviour
MaxRuns == 3

\* f"{transport_mode}_{start_point}_{end_point}_{use_parking}"
input_key(mode, sp, ep, sub) == <<mode, "_", sp, "_", ep, "_", sub>>

\* hashlib.md5(str(args).encode()).hexdigest(), taken as free of collisions
generate_input_hash(args) == <<"md5", args>>

\* the signature of the widgets of this run
signature(pg, mode, sp, ep, sub) ==
    IF pg = "v1" THEN input_key(mode, sp, ep, sub)
    ELSE generate_input_hash(<<mode, sp, ep, sub>>)

\* the arguments get_route_data is cached on
route_data_args(mode, sp, ep, sub) ==
    <<mode, sp, ep, sub, generate_input_hash(<<mode, sp, ep, sub>>)>>

\* the widget values of a run: mode, sub-option, start, end
SessionInputs ==
    {<<"Walking", "None", "A", "B">>,
     <<"Walking", "None", "X", "B">>,
     <<"Bus", "None", "A", "B">>,
     <<"Car", "Parking garage", "A", "B">>}

\* two stops that share the lines "a" and "b"
SessionStops ==
    <<[fields |-> [denominacion |-> "n1", geo_point_2d |-> <<1, 1>>,
                   lineas |-> <<"b", " ", ",", " ", "a">>]],
      [fields |-> [denominacion |-> "n2", geo_point_2d |-> <<0, 0>>,
                   lineas |-> <<"b", " ", ",", " ", "a">>]]>>

\* the guard `"last_input_key" not in st.session_state or ... != input_key`
\* (v1), `st.session_state.current_input_hash != input_hash` after the
\* initialisation to "" (v2)
inputs_changed(stored, sig) == stored = <<>> \/ stored[1] # sig

\* a page run up to the rebuild guard: the widgets give the inputs; a rebuild
\* starts a composition (v2: unless get_route_data is cached for the
\* arguments); with unchanged inputs v2 keeps the stored map and notice and
\* v1 evaluates `calculate_route`, a name the module never binds
PageRun ==
    /\ pc \in {"idle", "shown", "crashed"}
    /\ runs < MaxRuns
    /\ runs' = runs + 1
    /\ \E inp \in SessionInputs :
          /\ transport_mode' = inp[1]
          /\ use_parking' = inp[2]
          /\ start_point' = inp[3]
          /\ end_point' = inp[4]
          /\ LET sig  == signature(page, inp[1], inp[3], inp[4], inp[2])
                 hits == {e \in data_cache : e.args = route_data_args(inp[1], inp[3], inp[4], inp[2])}
             IN  IF inputs_changed(session.key, sig)
                 THEN IF page = "v2" /\ hits # {}
                      THEN /\ run' = "cached"
                           /\ pc' = "done"
                           /\ routes' = (CHOOSE e \in hits : TRUE).result.routes
                           /\ markers' = (CHOOSE e \in hits : TRUE).result.markers
                           /\ notice' = (CHOOSE e \in hits : TRUE).result.notice
                           /\ fault' = ""
                      ELSE /\ run' = "rebuild"
                           /\ pc' = "start"
                           /\ routes' = <<>>
                           /\ markers' = <<>>
                           /\ notice' = EmptyNotice
                           /\ fault' = ""
                 ELSE IF page = "v1"
                      THEN /\ run' = "raise"
                           /\ pc' = "crashed"
                           /\ fault' = "NameError: name 'calculate_route' is not defined"
                           /\ UNCHANGED <<routes, markers, notice>>
                      ELSE /\ run' = "skip"
                           /\ pc' = "shown"
                           /\ fault' = ""
                           /\ UNCHANGED <<routes, markers, notice>>
    /\ start_coords' = None /\ end_coords' = None
    /\ sel' = NoSel /\ plan' = <<>> /\ responses' = <<>>
    /\ requests' = <<>> /\ provider_calls' = <<>> /\ ui_errors' = <<>>
    /\ UNCHANGED <<chat_vars, page, hashseed, geo_vars, tp_vars, data_vars, route_cache,
                   session, data_cache, composed>>

\* what the composition of this run returned, with what it was computed from
Composition ==
    [page |-> page, inputs |-> <<transport_mode, use_parking, start_point, end_point>>,
     data |-> <<parkings, bikes, buses, traffic>>, responses |-> responses, seed |-> hashseed,
     routes |-> routes, markers |-> markers, notice |-> notice, line |-> Get(sel, "line", <<>>)]

\* build_map() / get_route_data() returned: the result, the notice and the
\* signature go to st.session_state (v2 also caches the route data)
StoreResult ==
    /\ pc = "done"
    /\ run \in {"rebuild", "cached"}
    /\ session' = [key    |-> <<signature(page, transport_mode, start_point, end_point,
                                           use_parking)>>,
                   map    |-> <<[markers |-> markers, routes |-> routes]>>,
                   notice |-> notice.text]
    /\ data_cache' =
          IF page = "v2"
          THEN data_cache \cup
                  {[args   |-> route_data_args(transport_mode, start_point, end_point, use_parking),
                    result |-> [routes |-> routes, markers |-> markers, notice |-> notice]]}
          ELSE data_cache
    /\ composed' = IF run = "rebuild" THEN composed \cup {Composition} ELSE composed
    /\ pc' = "shown"
    /\ UNCHANGED <<chat_vars, page, hashseed, geo_vars, tp_vars, data_vars, input_vars,
                   start_coords, end_coords, sel, plan, responses, requests, provider_calls,
                   route_cache, markers, routes, notice, ui_errors, fault, run, runs>>

\* the server process is started anew: the caches and the session are gone,
\* and sets of str iterate in the order of the new hash seed
Restart ==
    /\ pc \in {"shown", "crashed"}
    /\ runs < MaxRuns
    /\ hashseed' \in Seeds
    /\ session' = NoSession
    /\ route_cache' = {}
    /\ data_cache' = {}
    /\ run' = "none"
    /\ pc' = "idle"
    /\ start_coords' = None /\ end_coords' = None
    /\ sel' = NoSel /\ plan' = <<>> /\ responses' = <<>>
    /\ requests' = <<>> /\ provider_calls' = <<>> /\ ui_errors' = <<>>
    /\ markers' = <<>> /\ routes' = <<>> /\ notice' = EmptyNotice /\ fault' = ""
    /\ runs' = runs + 1
    /\ UNCHANGED <<chat_vars, page, geo_vars, tp_vars, data_vars, input_vars, composed>>

\* a browser session on one page: the datasets are loaded, nothing has run
SessionInit ==
    /\ page \in Pages
    /\ GeoIdle
    /\ TpIdle
    /\ SessIdle
    /\ ChatIdle
    /\ hashseed \in Seeds
    /\ parkings = <<>> /\ bikes = SampleFacilities
    /\ buses = SessionStops /\ traffic = SampleTraffic
    /\ transport_mode = "Walking" /\ use_parking = "None"
    /\ start_point = "A" /\ end_point = "B"
    /\ RunIdle("idle")

SessionNext ==
    PageRun \/ Geocode \/ Select \/ RequestLeg \/ Inspect \/ StoreResult \/ Restart

SpecSession == SessionInit /\ [][SessionNext]_vars

-----------------------------------------------------------------------------
(* The chat map page: Interactive_Map.py                                    *)

\* most turns of a chat history, the greeting included
MaxTurns == 3

Languages == {"es", "en"}

\* translations["assistant"][lang]
translations_assistant(lang) ==
    IF lang = "es" THEN "Preguntame algo sobre Valencia" ELSE "Ask me something about Valencia"

\* a reset that greets in the language of the defaults
reset_history_default(lang) ==
    [history |-> <<[assistant |-> translations_assistant("es")]>>,
     points |-> <<>>, routes |-> <<>>]

\* reset_history(): one greeting in st.session_state.language, no point, no route
reset_history(lang) ==
    [history |-> <<[assistant |-> translations_assistant(lang)]>>,
     points |-> <<>>, routes |-> <<>>]

\* the loop over data["Points"]: a place the geocoder finds is appended to
\* st.session_state.points (moved a little when its coordinate is taken) and to
\* new_points; a place it does not find, or an exception, is skipped
RECURSIVE geocode_points(_, _, _)
geocode_points(pts, new_points, todo) ==
    IF todo = <<>> THEN [points |-> pts, new_points |-> new_points]
    ELSE LET p == Head(todo)
         IN  IF p.loc = <<>>
             THEN geocode_points(pts, new_points, Tail(todo))
             ELSE LET taken == \E i \in 1..Len(pts) : pts[i].at = <<p.loc[1], "exact">>
                      point == [name |-> p.name,
                                at   |-> <<p.loc[1], IF taken THEN "offset" ELSE "exact">>]
                  IN  geocode_points(Append(pts, point), Append(new_points, point), Tail(todo))

\* the places of an answer with what the geocoder finds for each
PlaceLists ==
    {<<>>}
    \cup {<<[name |-> "P", loc |-> l]>> : l \in {<<>>, <<1>>}}
    \cup {<<[name |-> "P", loc |-> <<1>>], [name |-> "Q", loc |-> l]>> : l \in {<<>>, <<1>>, <<2>>}}

\* what the assistant API gives back: an HTTP or JSON error, or the parsed
\* data with Comment, Points (null allowed) and Route, and whether the
\* directions call then succeeds
Replies ==
    {[kind |-> "error"], [kind |-> "null_points", comment |-> "c"]}
    \cup {[kind |-> "data", comment |-> c, places |-> ps, route |-> r, directions |-> d] :
             c \in {"c", ""}, ps \in PlaceLists, r \in BOOLEAN, d \in BOOLEAN}

\* first run of the script: st.session_state.setdefault of the defaults
ChatInit ==
    /\ page = "chat"
    /\ GeoIdle
    /\ TpIdle
    /\ SessIdle
    /\ language = "es"
    /\ history = <<[assistant |-> translations_assistant("es")]>>
    /\ points = <<>>
    /\ chat_routes = <<>>
    /\ chat_event = "none"
    /\ hashseed = <<<<"a">>, <<"b">>>>
    /\ parkings = <<>> /\ bikes = <<>> /\ buses = <<>> /\ traffic = <<>>
    /\ transport_mode = "Walking" /\ use_parking = "None"
    /\ start_point = "A" /\ end_point = "B"
    /\ RunIdle("idle")

\* process_query(query): the turn is appended, then the places found, then
\* the route when one is asked for and two or more places were found; an
\* exception before the append leaves the session as it is
ProcessQuery ==
    /\ Len(history) < MaxTurns
    /\ chat_event' = "query"
    /\ \E user_query \in {"q1", "q2"}, reply \in Replies :
          IF reply.kind = "error"
          THEN UNCHANGED <<history, points, chat_routes>>
          ELSE /\ history' = Append(history, [user |-> user_query, assistant |-> reply.comment])
               /\ IF reply.kind = "null_points"
                  THEN UNCHANGED <<points, chat_routes>>
                  ELSE LET got == geocode_points(points, <<>>, reply.places)
                       IN  /\ points' = got.points
                           /\ chat_routes' =
                                 IF reply.route /\ Len(got.new_points) > 1 /\ reply.directions
                                 THEN Append(chat_routes,
                                             <<got.new_points[1].at,
                                               got.new_points[Len(got.new_points)].at>>)
                                 ELSE chat_routes
    /\ UNCHANGED <<sess_vars, page, hashseed, geo_vars, tp_vars, data_vars, input_vars,
                   run_vars, language>>

\* the clear button: reset_history()
ClearButton ==
    /\ chat_event' = "clear"
    /\ history' = reset_history(language).history
    /\ points' = reset_history(language).points
    /\ chat_routes' = reset_history(language).routes
    /\ UNCHANGED <<sess_vars, page, hashseed, geo_vars, tp_vars, data_vars, input_vars,
                   run_vars, language>>

\* the language selectbox (key="language", on_change=reset_history): the new
\* value is in st.session_state when the callback runs
ChangeLanguage ==
    /\ chat_event' = "language"
    /\ language' \in Languages \ {language}
    /\ history' = reset_history(language').history
    /\ points' = reset_history(language').points
    /\ chat_routes' = reset_history(language').routes
    /\ UNCHANGED <<sess_vars, page, hashseed, geo_vars, tp_vars, data_vars, input_vars,
                   run_vars>>

ChatNext == ProcessQuery \/ ClearButton \/ ChangeLanguage

SpecChat == ChatInit /\ [][ChatNext]_vars

-----------------------------------------------------------------------------
(* Inputs of the geospatial index *)

RecNames == <<"r1", "r2", "r3", "r4", "r5">>

\* coordinates the queried records carry, and the reference points of the queries
GeoCoords == {<<>>, BadArity, BadNumber, <<0, 0>>, <<2, 0>>, <<1, 1>>}

GeoRefs == {<<1, 0>>, <<0, 1>>}

\* the i-th record of a list: with or without a coordinate
RecordsAt(i) ==
    {[fields |-> [nombre |-> RecNames[i]]]}
    \cup {[fields |-> [nombre |-> RecNames[i], geo_point_2d |-> c]] : c \in GeoCoords}

RECURSIVE ListsOfLen(_)
ListsOfLen(n) ==
    IF n = 0 THEN {<<>>}
    ELSE {Append(s, r) : s \in ListsOfLen(n - 1), r \in RecordsAt(n)}

RecordLists == UNION {ListsOfLen(n) : n \in 0..MaxRecs}

Ks == (0..MaxK) \cup {K_DEFAULT}

\* the index on its own: a record list and a reference point are given
GeoInit ==
    /\ page \in Pages
    /\ recs \in RecordLists
    /\ ref \in GeoRefs
    /\ nearest_out = NotCalled
    /\ knearest_out = NotCalled
    /\ TpIdle
    /\ SessIdle
    /\ ChatIdle
    /\ transport_mode = "Walking" /\ use_parking = "None"
    /\ parkings = <<>> /\ bikes = <<>> /\ buses = <<>> /\ traffic = <<>>
    /\ hashseed = <<<<"a">>, <<"b">>>>
    /\ start_point = "A" /\ end_point = "B"
    /\ RunIdle("idle")

CallFindClosest ==
    /\ ~nearest_out.called
    /\ nearest_out' = [called |-> TRUE, res |-> find_closest(page, recs, ref)]
    /\ UNCHANGED <<sess_vars, chat_vars, page, hashseed, recs, ref, knearest_out, tp_vars, data_vars,
                   input_vars, run_vars>>

CallKClosest ==
    /\ ~knearest_out.called
    /\ \E kk \in Ks :
          knearest_out' = [called |-> TRUE, k |-> kk, res |-> k_closest(recs, ref, kk)]
    /\ UNCHANGED <<sess_vars, chat_vars, page, hashseed, recs, ref, nearest_out, tp_vars, data_vars,
                   input_vars, run_vars>>

GeoNext == CallFindClosest \/ CallKClosest

SpecGeo == GeoInit /\ [][GeoNext]_vars

-----------------------------------------------------------------------------
(* Inputs of the traffic penalty estimator *)

\* longest traffic list handed to the estimator
MaxTpRecs == 2

\* geometries, (lon, lat) points: from A to B; the same through four points
\* that are not sampled; with a first point that does not unpack; empty
TpPaths ==
    {<<<<0, 1>>, <<1, 0>>>>,
     <<<<0, 1>>, Waypoint, Waypoint, Waypoint, Waypoint, <<1, 0>>>>,
     <<<<0, 1, 0>>, <<1, 0>>>>,
     <<>>}

\* the route argument: None, a route, or GeoJSON lacking "features", a first
\* feature or its "geometry"
TpRoutes ==
    {<<>>}
    \cup {<<Route(p, 600)>> : p \in TpPaths}
    \cup {<<[type |-> "FeatureCollection"]>>,
          <<[features |-> <<>>]>>,
          <<[features |-> <<[properties |-> [summary |-> [duration |-> 600]]]>>]>>}

\* coordinates of traffic records: 30 m from A and 40 m from B, at A (50 m from
\* B), at Waypoint (50 m from A), malformed
TpCoords == {<<1, 1>>, <<1, 0>>, <<2, 1>>, BadArity}

TpIntensities == {0 - 100, 100, 300}

\* a traffic record: numeric intensity; intensity "200" or "n/a" as str; a list;
\* null intensity; no coordinate; no "fields"; not a dict
TpRecordValues ==
    {[fields |-> [geo_point_2d |-> c, intensidad |-> x]] : c \in TpCoords, x \in TpIntensities}
    \cup {[fields |-> [geo_point_2d |-> <<1, 1>>, intensidad |-> s, intensidad_type |-> "str"]] :
             s \in {<<"2", "0", "0">>, <<"n", "/", "a">>}}
    \cup {[fields |-> [geo_point_2d |-> <<1, 1>>, intensidad |-> <<"200">>,
                       intensidad_type |-> "list"]],
          [fields |-> [geo_point_2d |-> <<1, 1>>]],
          [fields |-> [intensidad |-> 100]],
          [recordid |-> "t"],
          [not_a_dict |-> TRUE]}

RECURSIVE TpListsOfLen(_)
TpListsOfLen(n) ==
    IF n = 0 THEN {<<>>}
    ELSE {Append(s, r) : s \in TpListsOfLen(n - 1), r \in TpRecordValues}

TpRecordLists == UNION {TpListsOfLen(n) : n \in 0..MaxTpRecs}

\* the estimator on its own: a route and a traffic list are given
TrafficInit ==
    /\ page \in Pages
    /\ GeoIdle
    /\ SessIdle
    /\ ChatIdle
    /\ tp_route \in TpRoutes
    /\ tp_records \in TpRecordLists
    /\ penalty_out = NotCalled
    /\ total_out = NotCalled
    /\ transport_mode = "Car" /\ use_parking = "Street parking"
    /\ parkings = <<>> /\ bikes = <<>> /\ buses = <<>> /\ traffic = <<>>
    /\ hashseed = <<<<"a">>, <<"b">>>>
    /\ start_point = "A" /\ end_point = "B"
    /\ RunIdle("idle")

CallTrafficPenalty ==
    /\ ~penalty_out.called
    /\ penalty_out' = [called |-> TRUE, res |-> tp_outcome(page, tp_route, tp_records)]
    /\ UNCHANGED <<sess_vars, chat_vars, page, hashseed, geo_vars, tp_route, tp_records, total_out, data_vars,
                   input_vars, run_vars>>

\* add_penalty(drive_route, base_seconds), called with a route that came back
CallAddPenalty ==
    /\ ~total_out.called
    /\ tp_route # <<>>
    /\ \E base \in Durations :
          total_out' = [called |-> TRUE, base |-> base,
                        res |-> add_penalty(page, tp_route, base, tp_records)]
    /\ UNCHANGED <<sess_vars, chat_vars, page, hashseed, geo_vars, tp_route, tp_records, penalty_out, data_vars,
                   input_vars, run_vars>>

TrafficNext == CallTrafficPenalty \/ CallAddPenalty

SpecTraffic == TrafficInit /\ [][TrafficNext]_vars

-----------------------------------------------------------------------------
(* Properties of the geospatial index (checked under SpecGeo)               *)

\* the records of recs that carry a coordinate at all (a truthy geo_point_2d)
WithCoord == {i \in 1..Len(recs) : Get(recs[i].fields, "geo_point_2d", None) # <<>>}

\* the records of recs whose coordinate is a well-formed (lat, lon)
ValidIdx == {i \in WithCoord : WellFormed(recs[i].fields.geo_point_2d)}

\* the records of recs with a malformed coordinate taken out
RECURSIVE WithoutMalformed(_)
WithoutMalformed(records) ==
    IF records = <<>> THEN <<>>
    ELSE LET c == Get(Head(records).fields, "geo_point_2d", None)
         IN  IF c # <<>> /\ ~WellFormed(c)
             THEN WithoutMalformed(Tail(records))
             ELSE <<Head(records)>> \o WithoutMalformed(Tail(records))

DistOf(i) == geodesic(ref, recs[i].fields.geo_point_2d).value

DistOfFields(f) == geodesic(ref, f.geo_point_2d).value

\* C1: find_closest returns a valid record at minimal distance from ref, the
\* first such record in input order; it returns None when the list is empty
\* or no record has a valid coordinate
C1_NearestIsFirstMinimum ==
    nearest_out.called =>
        /\ ~nearest_out.res.raised
        /\ IF ValidIdx = {}
           THEN nearest_out.res.value = None
           ELSE \E i \in ValidIdx :
                   /\ nearest_out.res.value = <<recs[i].fields>>
                   /\ \A j \in ValidIdx :
                         /\ DistOf(i) <= DistOf(j)
                         /\ (DistOf(j) = DistOf(i) => i <= j)

\* C1 happens: two records tie for the minimum, a third is farther, and the
\* earlier of the two is returned
C1_Witness ==
    /\ nearest_out.called
    /\ \E i, j, f \in ValidIdx :
          /\ i < j
          /\ DistOf(i) = DistOf(j)
          /\ DistOf(f) > DistOf(i)
          /\ nearest_out.res.value = <<recs[i].fields>>

\* C2: k_closest returns min(k, valid_count) records, valid_count being the
\* number of records with a coordinate, in non-decreasing distance from ref,
\* each at least as close as every record with a coordinate left out
C2_KNearestSortedPrefix ==
    knearest_out.called =>
        LET res == knearest_out.res
        IN  /\ ~res.raised
            /\ Len(res.value) = Min(knearest_out.k, Cardinality(WithCoord))
            /\ \A a, b \in 1..Len(res.value) :
                  a < b => DistOfFields(res.value[a]) <= DistOfFields(res.value[b])
            /\ \A a \in 1..Len(res.value) : \A i \in WithCoord :
                  (\A b \in 1..Len(res.value) : res.value[b] # recs[i].fields)
                  => DistOfFields(res.value[a]) <= DistOf(i)

\* C3: neither find_closest nor k_closest raises on a malformed coordinate;
\* the result is the one computed over the list without the offending records
C3_MalformedExcluded ==
    /\ nearest_out.called =>
          /\ ~nearest_out.res.raised
          /\ nearest_out.res = find_closest(page, WithoutMalformed(recs), ref)
    /\ knearest_out.called =>
          /\ ~knearest_out.res.raised
          /\ knearest_out.res = k_closest(WithoutMalformed(recs), ref, knearest_out.k)

\* C28: on a record list whose coordinates are all well-formed or absent,
\* find_closest is None exactly when k_closest(records, ref, 1) is empty, and
\* otherwise it is the single element of k_closest(records, ref, 1), ties at
\* the minimal distance included
C28_NearestAgreesWithKNearest ==
    (/\ nearest_out.called
     /\ knearest_out.called
     /\ knearest_out.k = 1
     /\ WithCoord = ValidIdx)
    => /\ ~nearest_out.res.raised
       /\ ~knearest_out.res.raised
       /\ (nearest_out.res.value = None) <=> (knearest_out.res.value = <<>>)
       /\ nearest_out.res.value # None =>
              knearest_out.res.value = <<nearest_out.res.value[1]>>

\* C28 happens: two records tie for the minimum, one record has no coordinate,
\* and both calls return the earlier of the two
C28_Witness ==
    /\ nearest_out.called
    /\ knearest_out.called
    /\ knearest_out.k = 1
    /\ WithCoord = ValidIdx
    /\ WithCoord # 1..Len(recs)
    /\ \E i, j \in ValidIdx :
          /\ i < j
          /\ DistOf(i) = DistOf(j)
          /\ \A f \in ValidIdx : DistOf(i) <= DistOf(f)
          /\ nearest_out.res.value = <<recs[i].fields>>
          /\ knearest_out.res.value = <<recs[i].fields>>

-----------------------------------------------------------------------------
(* Properties of the composition (checked under Spec)                       *)

\* both addresses were geocoded and the facilities of the mode were chosen
Composed ==
    /\ pc \in {"request", "inspect", "done"}
    /\ start_coords # None
    /\ end_coords # None

\* a get_route call of this composition came back None
LegFailed == \E i \in 1..Len(responses) : responses[i] = None

\* every call of the plan was made and answered with a route
AllLegsBack == pc = "done" /\ plan # <<>> /\ Len(responses) = Len(plan) /\ ~LegFailed

FirstPoint(leg) == path_of(leg.geojson)[1]

LastPoint(leg) == path_of(leg.geojson)[Len(path_of(leg.geojson))]

\* a leg drawn from (lat, lon) a to (lat, lon) b, answering get_route call n
LegIs(leg, a, b, n) ==
    /\ leg.geojson = responses[n][1]
    /\ FirstPoint(leg) = <<a[2], a[1]>>
    /\ LastPoint(leg) = <<b[2], b[1]>>

NoPlanShown ==
    /\ pc = "done"
    /\ routes = <<>>
    /\ requests = <<>>
    /\ notice.total = <<>>

\* the candidate sets of the bus pairing
CandA == k_closest(buses, start_coords, K_DEFAULT)

CandB == k_closest(buses, end_coords, K_DEFAULT)

\* the pairs (index in A, index in B) of candidates with a line in common
SharingPairs(A, B) ==
    {p \in (1..Len(A)) \X (1..Len(B)) : line_set(A[p[1]]) \cap line_set(B[p[2]]) # {}}

PairScore(A, B, p) ==
    geodesic(start_coords, A[p[1]].geo_point_2d).value
    + geodesic(end_coords, B[p[2]].geo_point_2d).value

\* every candidate's line list is a str (none is null)
LinesAreStr(A) == \A i \in 1..Len(A) : Get(A[i], "lineas", <<>>) # NULL_LINEAS

BusComposed == transport_mode = "Bus" /\ Composed

\* the step of a Bus composition that pairs the stops
BusPairingStep == transport_mode = "Bus" /\ pc = "select" /\ pc' # "select"

NoConnectionTexts ==
    {"(!) No bus stops found near start/end points",
     "No bus stops found near start/end points",
     "(!) No direct bus line found between nearby stops",
     "No bus line connects stops near origin and destination"}

\* C4: over the candidate sets, no line-sharing pair gives the no-connection
\* notice and no plan (the composition ends there, nothing requested or
\* drawn); exactly one line-sharing pair is the pair selected
C4_BusPairing ==
    [][BusPairingStep =>
        LET ca == CandA
            cb == CandB
            S  == SharingPairs(ca.value, cb.value)
        IN  (~ca.raised /\ ~cb.raised /\ LinesAreStr(ca.value) /\ LinesAreStr(cb.value)) =>
              /\ S = {} =>
                    /\ notice'.text \in NoConnectionTexts
                    /\ notice'.total = <<>>
                    /\ pc' = "done"
                    /\ routes' = <<>> /\ requests' = <<>>
                    /\ sel' = NoSel /\ plan' = <<>> /\ markers' = <<>>
              /\ \A p \in S :
                    S = {p} =>
                        /\ sel'.kind = "stops"
                        /\ sel'.stop_start = ca.value[p[1]]
                        /\ sel'.stop_end = cb.value[p[2]]
                        /\ pc' = "request"]_vars

\* C4 happens: the only line-sharing pair is selected although a pair that
\* shares no line has a smaller walking distance
C4_Witness ==
    /\ BusComposed
    /\ sel.kind = "stops"
    /\ LET ca == CandA
           cb == CandB
           S  == SharingPairs(ca.value, cb.value)
       IN  /\ ~ca.raised /\ ~cb.raised
           /\ \E p \in S :
                 /\ S = {p}
                 /\ sel.stop_start = ca.value[p[1]]
                 /\ sel.stop_end = cb.value[p[2]]
                 /\ \E q \in ((1..Len(ca.value)) \X (1..Len(cb.value))) \ S :
                       PairScore(ca.value, cb.value, q) < PairScore(ca.value, cb.value, p)

\* C5: when a pair shares a line, the selected pair has the least walking
\* distance of all line-sharing pairs, and the line chosen for it, which is
\* the line the notice reports, is one both stops carry
C5_BestPairAndLine ==
    /\ [][BusPairingStep =>
            LET ca == CandA
                cb == CandB
                S  == SharingPairs(ca.value, cb.value)
            IN  (/\ ~ca.raised /\ ~cb.raised
                 /\ LinesAreStr(ca.value) /\ LinesAreStr(cb.value)
                 /\ S # {}) =>
                  /\ sel'.kind = "stops"
                  /\ \E p \in S :
                        /\ sel'.stop_start = ca.value[p[1]]
                        /\ sel'.stop_end = cb.value[p[2]]
                        /\ sel'.score = PairScore(ca.value, cb.value, p)
                        /\ \A q \in S :
                              PairScore(ca.value, cb.value, p)
                                  <= PairScore(ca.value, cb.value, q)
                  /\ sel'.line \in line_set(sel'.stop_start) \cap line_set(sel'.stop_end)]_vars
    /\ [](sel.kind = "stops" =>
            /\ notice.line \in {<<>>, <<sel.line>>}
            /\ AllLegsBack => notice.line = <<sel.line>>)

\* C5 happens: a plan is shown for the best of several line-sharing pairs of
\* different walking distance, the stops sharing two lines
C5_Witness ==
    /\ BusComposed
    /\ AllLegsBack
    /\ sel.kind = "stops"
    /\ notice.line = <<sel.line>>
    /\ Cardinality(line_set(sel.stop_start) \cap line_set(sel.stop_end)) = 2
    /\ LET ca == CandA
           cb == CandB
       IN  \E q \in SharingPairs(ca.value, cb.value) :
               PairScore(ca.value, cb.value, q) > sel.score

\* the number of legs of a plan of the mode
FullLegCount ==
    CASE transport_mode = "Walking" -> 1
      [] transport_mode = "Car" /\ use_parking = "Street parking" -> 1
      [] transport_mode = "Car" /\ use_parking = "Parking garage" -> 2
      [] transport_mode = "Valenbisi" -> 3
      [] transport_mode = "Bus" -> 3
      [] OTHER -> 0

LegFailureTexts ==
    {"(!) Could not calculate route to parking garage",
     "(!) Could not calculate driving route",
     "(!) Could not calculate Valenbisi route",
     "(!) Could not calculate walking route",
     "(!) Could not calculate complete bus route for Line"}

\* the user is told of the failure: by the notice, or by the st.error of get_route
FailureReported ==
    \/ notice.text \in LegFailureTexts
    \/ \E i \in 1..Len(ui_errors) : ui_errors[i] = route_error(page)

\* C6: the legs shown are none or all the legs of the mode; when a get_route
\* call fails no leg is shown, no total is given and the failure is reported
C6_AllLegsOrNone ==
    /\ Len(routes) \in {0, FullLegCount}
    /\ routes # <<>> => AllLegsBack /\ notice.total # <<>>
    /\ (pc = "done" /\ LegFailed) =>
          /\ routes = <<>>
          /\ notice.total = <<>>
          /\ FailureReported

\* C6 happens: a Valenbisi composition whose first call succeeded and whose
\* second failed ends with no leg
C6_Witness ==
    /\ pc = "done"
    /\ transport_mode = "Valenbisi"
    /\ Len(responses) = 3
    /\ responses[1] # None
    /\ responses[2] = None
    /\ routes = <<>>

NoParkingTexts ==
    {"(!) No parking garages found near destination",
     "No parking garage found near destination"}

\* C7: Car with parking garage. No nearest parking: the no-parking failure and
\* no leg. Else the calls are drive start->parking, walk parking->end, and the
\* plan is these two legs with total = both durations + the penalty of the
\* driving leg
C7_CarParkingGarage ==
    (transport_mode = "Car" /\ use_parking = "Parking garage" /\ Composed) =>
        LET parking == find_closest(page, parkings, end_coords).value
        IN  IF parking = None
            THEN /\ notice.text \in NoParkingTexts
                 /\ NoPlanShown
                 /\ plan = <<>> /\ markers = <<>>
            ELSE /\ plan = <<Req(<<Reverse(start_coords), Reverse(parking[1].geo_point_2d)>>,
                                 "driving-car"),
                             Req(<<Reverse(parking[1].geo_point_2d), Reverse(end_coords)>>,
                                 "foot-walking")>>
                 /\ AllLegsBack =>
                       /\ Len(routes) = 2
                       /\ LegIs(routes[1], start_coords, parking[1].geo_point_2d, 1)
                       /\ LegIs(routes[2], parking[1].geo_point_2d, end_coords, 2)
                       /\ notice.penalty = traffic_penalty_seconds(page, responses[1], traffic)
                       /\ notice.total =
                              RatAdd(RatInt(duration_of(responses[1][1])
                                            + duration_of(responses[2][1])),
                                     traffic_penalty_seconds(page, responses[1], traffic))

\* C7 happens: a two-leg plan whose penalty is not zero and is not the one
\* the walking leg would give
C7_Witness ==
    /\ transport_mode = "Car" /\ use_parking = "Parking garage"
    /\ AllLegsBack
    /\ Len(routes) = 2
    /\ notice.penalty # Zero
    /\ traffic_penalty_seconds(page, responses[2], traffic) # notice.penalty

\* C8: a bus plan is the three legs walk start->stop_start, drive
\* stop_start->stop_end, walk stop_end->end in this order, each starting where
\* the one before ended; total = the three durations + 420 s, no traffic penalty
C8_BusLegsInJourneyOrder ==
    (transport_mode = "Bus" /\ AllLegsBack /\ sel.kind = "stops") =>
        /\ Len(routes) = 3
        /\ LegIs(routes[1], start_coords, sel.stop_start.geo_point_2d, 1)
        /\ LegIs(routes[2], sel.stop_start.geo_point_2d, sel.stop_end.geo_point_2d, 3)
        /\ LegIs(routes[3], sel.stop_end.geo_point_2d, end_coords, 2)
        /\ LastPoint(routes[1]) = FirstPoint(routes[2])
        /\ LastPoint(routes[2]) = FirstPoint(routes[3])
        /\ notice.total = RatInt(duration_of(responses[1][1]) + duration_of(responses[2][1])
                                 + duration_of(responses[3][1]) + 420)
        /\ notice.penalty = <<>>

NoStationTexts ==
    {"(!) No Valenbisi stations found near start/end points",
     "No Valenbisi stations found near start/end points"}

\* C9: Valenbisi. The stations are the nearest to the start and the nearest to
\* the end; without them the no-station failure and no leg; else the calls and
\* the legs are walk start->pickup, cycle pickup->return, walk return->end and
\* total = the three durations
C9_Valenbisi ==
    (transport_mode = "Valenbisi" /\ Composed) =>
        LET st_start == find_closest(page, bikes, start_coords).value
            st_end   == find_closest(page, bikes, end_coords).value
        IN  IF st_start = None \/ st_end = None
            THEN /\ notice.text \in NoStationTexts
                 /\ NoPlanShown
                 /\ plan = <<>> /\ markers = <<>>
            ELSE /\ sel.kind = "stations"
                 /\ sel.st_start = st_start[1]
                 /\ sel.st_end = st_end[1]
                 /\ plan = <<Req(<<Reverse(start_coords), Reverse(st_start[1].geo_point_2d)>>,
                                 "foot-walking"),
                             Req(<<Reverse(st_start[1].geo_point_2d),
                                   Reverse(st_end[1].geo_point_2d)>>, "cycling-regular"),
                             Req(<<Reverse(st_end[1].geo_point_2d), Reverse(end_coords)>>,
                                 "foot-walking")>>
                 /\ AllLegsBack =>
                       /\ Len(routes) = 3
                       /\ LegIs(routes[1], start_coords, st_start[1].geo_point_2d, 1)
                       /\ LegIs(routes[2], st_start[1].geo_point_2d, st_end[1].geo_point_2d, 2)
                       /\ LegIs(routes[3], st_end[1].geo_point_2d, end_coords, 3)
                       /\ notice.total = RatInt(duration_of(responses[1][1])
                                                + duration_of(responses[2][1])
                                                + duration_of(responses[3][1]))
                       /\ notice.penalty = <<>>

\* C9 happens: a three-leg plan between two different stations
C9_Witness ==
    /\ transport_mode = "Valenbisi"
    /\ AllLegsBack
    /\ Len(routes) = 3
    /\ sel.st_start # sel.st_end
    /\ duration_of(responses[1][1]) # duration_of(responses[2][1])

\* the traffic records within 50 m of a sampled point (every 5th) of a path
MatchedTraffic(path) ==
    {i \in 1..Len(traffic) :
        \E n \in 1..Len(path) :
            /\ (n - 1) % 5 = 0
            /\ geodesic(<<path[n][2], path[n][1]>>, traffic[i].fields.geo_point_2d).value < 50}

RECURSIVE IntensitySum(_)
IntensitySum(idx) ==
    IF idx = {} THEN 0
    ELSE LET i == CHOOSE j \in idx : TRUE
         IN  traffic[i].fields.intensidad + IntensitySum(idx \ {i})

\* C10: Car with street parking is one driving leg start->end with total =
\* its duration + the traffic penalty over it; a base of 600 s with matched
\* intensities averaging 200 gives a penalty of 120 s and a total of 720 s
C10_CarStreetParking ==
    (transport_mode = "Car" /\ use_parking = "Street parking" /\ Composed) =>
        /\ plan = <<Req(<<Reverse(start_coords), Reverse(end_coords)>>, "driving-car")>>
        /\ markers = <<>>
        /\ AllLegsBack =>
              LET m == MatchedTraffic(path_of(responses[1][1]))
              IN  /\ Len(routes) = 1
                  /\ LegIs(routes[1], start_coords, end_coords, 1)
                  /\ notice.penalty = traffic_penalty_seconds(page, responses[1], traffic)
                  /\ notice.total = RatAdd(RatInt(duration_of(responses[1][1])), notice.penalty)
                  /\ (m # {} /\ IntensitySum(m) = 200 * Cardinality(m)) =>
                        /\ notice.penalty = RatInt(120)
                        /\ notice.total = RatInt(duration_of(responses[1][1]) + 120)

\* C10 happens: base 600 s, penalty 120 s, total 720 s
C10_Witness ==
    /\ transport_mode = "Car" /\ use_parking = "Street parking"
    /\ AllLegsBack
    /\ duration_of(responses[1][1]) = 600
    /\ notice.penalty = RatInt(120)
    /\ notice.total = RatInt(720)

\* C11: Walking is one call start->end with the walking profile and no
\* facility marker; when the provider returns a route the plan is that one
\* leg and the total is its duration (900 s gives 900 s)
C11_Walking ==
    (transport_mode = "Walking" /\ Composed) =>
        /\ plan = <<[coords  |-> <<<<start_coords[2], start_coords[1]>>,
                                   <<end_coords[2], end_coords[1]>>>>,
                     profile |-> "foot-walking"]>>
        /\ markers = <<>>
        /\ sel = NoSel
        /\ AllLegsBack =>
              /\ requests = plan
              /\ Len(routes) = 1
              /\ LegIs(routes[1], start_coords, end_coords, 1)
              /\ notice.total = <<duration_of(responses[1][1]), 1>>
              /\ notice.penalty = <<>>
              /\ duration_of(responses[1][1]) = 900 => notice.total = <<900, 1>>

\* C11 happens: a walking plan of one leg of 900 s, total 900 s
C11_Witness ==
    /\ transport_mode = "Walking"
    /\ AllLegsBack
    /\ Len(routes) = 1
    /\ duration_of(routes[1].geojson) = 900
    /\ notice.total = <<900, 1>>

-----------------------------------------------------------------------------
(* Properties of the traffic penalty estimator (checked under SpecTraffic)  *)

\* tp_route is a route with a geometry
TpHasPath ==
    /\ tp_route # <<>>
    /\ "features" \in DOMAIN tp_route[1]
    /\ tp_route[1].features # <<>>
    /\ "geometry" \in DOMAIN tp_route[1].features[1]

TpPath == IF TpHasPath THEN tp_route[1].features[1].geometry.coordinates ELSE <<>>

\* the sampled points: indices 0, 5, 10, ... of the path
TpSampled == {n \in 1..Len(TpPath) : (n - 1) % 5 = 0}

\* the number a str intensity spells, for the spellings that are numbers
TextNumber(s) == CASE s = <<"2", "0", "0">> -> <<200>> [] OTHER -> <<>>

\* the numeric intensity of a record, <<>> when it has none
IntensityOf(rec) ==
    IF "fields" \notin DOMAIN rec THEN <<>>
    ELSE IF "intensidad" \notin DOMAIN rec.fields THEN <<>>
    ELSE IF "intensidad_type" \notin DOMAIN rec.fields THEN <<rec.fields.intensidad>>
    ELSE IF rec.fields.intensidad_type = "str" THEN TextNumber(rec.fields.intensidad)
    ELSE <<>>

\* the record has a (lat, lon) coordinate within 50 m of a sampled point
NearSampled(rec) ==
    /\ "fields" \in DOMAIN rec
    /\ "geo_point_2d" \in DOMAIN rec.fields
    /\ WellFormed(rec.fields.geo_point_2d)
    /\ \E n \in TpSampled :
          /\ Len(TpPath[n]) = 2
          /\ geodesic(<<TpPath[n][2], TpPath[n][1]>>, rec.fields.geo_point_2d).value < 50

\* the matched records of tp_records
TpMatched == {i \in 1..Len(tp_records) : IntensityOf(tp_records[i]) # <<>> /\ NearSampled(tp_records[i])}

RECURSIVE TpIntensitySum(_)
TpIntensitySum(idx) ==
    IF idx = {} THEN 0
    ELSE LET i == CHOOSE j \in idx : TRUE
         IN  IntensityOf(tp_records[i])[1] + TpIntensitySum(idx \ {i})

\* C12: the penalty is 0 when no record with a coordinate and a numeric
\* intensity is within 50 m of a sampled point (every 5th path point), and
\* else (mean of the matched intensities / 100) * 60
C12_PenaltyIsMeanOfMatched ==
    penalty_out.called =>
        /\ ~penalty_out.res.raised
        /\ IF TpMatched = {}
           THEN penalty_out.res.value = <<0, 1>>
           ELSE penalty_out.res.value[1] * 100 * Cardinality(TpMatched)
                    = 60 * TpIntensitySum(TpMatched) * penalty_out.res.value[2]

\* C13: the penalty returned is >= 0, so the total of add_penalty is never
\* below the base duration handed to it
C13_PenaltyNonNegative ==
    /\ penalty_out.called => penalty_out.res.value[1] >= 0
    /\ total_out.called =>
          /\ total_out.res.penalty[1] >= 0
          /\ total_out.res.total[1] >= total_out.base * total_out.res.total[2]

MalformedTraffic(rec) ==
    /\ "fields" \in DOMAIN rec
    /\ \/ /\ "geo_point_2d" \in DOMAIN rec.fields
          /\ ~WellFormed(rec.fields.geo_point_2d)
       \/ /\ "intensidad" \in DOMAIN rec.fields
          /\ IntensityOf(rec) = <<>>

\* C20: a traffic record with a bad coordinate or a non-numeric intensity is
\* skipped: the penalty is the one of the same list without such records
C20_MalformedRecordSkipped ==
    penalty_out.called =>
        penalty_out.res.value =
            traffic_penalty_seconds(page, tp_route,
                                    SelectSeq(tp_records, LAMBDA r : ~MalformedTraffic(r)))

\* the sampled points within 50 m of a record's coordinate
SampledNear(rec) ==
    {n \in TpSampled :
        /\ Len(TpPath[n]) = 2
        /\ geodesic(<<TpPath[n][2], TpPath[n][1]>>, rec.fields.geo_point_2d).value < 50}

\* C26: every traffic record contributes its intensity to the mean at most
\* once, however many sampled points are within the radius of it: the penalty
\* is (mean / 100) * 60 over a set of distinct matched records, or 0
C26_RecordCountedOnce ==
    penalty_out.called =>
        \E S \in SUBSET TpMatched :
            IF S = {}
            THEN penalty_out.res.value = <<0, 1>>
            ELSE penalty_out.res.value[1] * 100 * Cardinality(S)
                     = 60 * TpIntensitySum(S) * penalty_out.res.value[2]

\* C26 happens: one record is within the radius of two sampled points, another
\* of one only, their intensities differ, and the penalty is the mean of the two
C26_Witness ==
    /\ penalty_out.called
    /\ Len(tp_records) = 2
    /\ TpMatched = {1, 2}
    /\ Cardinality(SampledNear(tp_records[1])) = 1
    /\ Cardinality(SampledNear(tp_records[2])) = 2
    /\ IntensityOf(tp_records[1]) = <<100>>
    /\ IntensityOf(tp_records[2]) = <<300>>
    /\ penalty_out.res.value = <<120, 1>>

-----------------------------------------------------------------------------
(* Properties of the provider boundary (checked under Spec)                 *)

\* the (lat, lon) values of the facilities in the datasets
FacilityPoints ==
    UNION {{d[i].fields.geo_point_2d :
               i \in {j \in 1..Len(d) : /\ "geo_point_2d" \in DOMAIN d[j].fields
                                         /\ WellFormed(d[j].fields.geo_point_2d)}} :
           d \in {parkings, bikes, buses}}

LonFirst(c) == <<c[2], c[1]>>

\* the profile of the n-th get_route call of a mode, in the order of the calls
\* (Bus calls walk, walk, then the bus proxy leg)
ProfileOfCall(n) ==
    CASE transport_mode = "Walking" -> "foot-walking"
      [] transport_mode = "Car" /\ use_parking = "Street parking" -> "driving-car"
      [] transport_mode = "Car" /\ n = 1 -> "driving-car"
      [] transport_mode = "Car" -> "foot-walking"
      [] transport_mode = "Valenbisi" /\ n = 2 -> "cycling-regular"
      [] transport_mode = "Valenbisi" -> "foot-walking"
      [] transport_mode = "Bus" /\ n = 3 -> "driving-car"
      [] OTHER -> "foot-walking"

\* C14: every coordinate handed to get_route is (lon, lat), the reversal of
\* the start, the end or a facility coordinate, and every call carries the
\* profile of its leg, one of foot-walking, driving-car, cycling-regular
C14_ProviderBoundary ==
    \A n \in 1..Len(requests) :
        /\ Len(requests[n].coords) = 2
        /\ requests[n].coords[1] \in {LonFirst(c) : c \in {start_coords} \cup FacilityPoints}
        /\ requests[n].coords[2] \in {LonFirst(c) : c \in {end_coords} \cup FacilityPoints}
        /\ requests[1].coords[1] = LonFirst(start_coords)
        /\ requests[n].profile \in {"foot-walking", "driving-car", "cycling-regular"}
        /\ requests[n].profile = ProfileOfCall(n)
        /\ \A m \in 1..Len(provider_calls) :
              \E k \in 1..Len(requests) : provider_calls[m] = requests[k]

\* C14 happens: the three calls of a Valenbisi plan were made, one of them
\* about a station whose latitude and longitude differ
C14_Witness ==
    /\ transport_mode = "Valenbisi"
    /\ Len(requests) = 3
    /\ sel.kind = "stations"
    /\ sel.st_start.geo_point_2d = <<2, 0>>
    /\ requests[2].coords[1] = <<0, 2>>
    /\ requests[2].profile = "cycling-regular"

-----------------------------------------------------------------------------
(* Properties of the failure outcomes (checked under Spec)                  *)

\* the composition is over after a geocode miss
GeocodeMissed == pc \in {"done", "crashed"} /\ (start_coords = None \/ end_coords = None)

\* C15: a geocode miss for the start or the end address ends the composition
\* in a normal failure with a message for the user: no exception escapes, no
\* leg is requested or drawn
C15_GeocodeMissNonFatal ==
    GeocodeMissed =>
        /\ pc = "done"
        /\ fault = ""
        /\ notice.text # ""
        /\ notice.total = <<>>
        /\ requests = <<>>
        /\ routes = <<>>

\* the dataset the mode reads came back empty (get_json returns [] on error)
ModeDatasetEmpty ==
    \/ transport_mode = "Car" /\ use_parking = "Parking garage" /\ parkings = <<>>
    \/ transport_mode = "Valenbisi" /\ bikes = <<>>
    \/ transport_mode = "Bus" /\ buses = <<>>

\* C16: when the geocoder, the dataset fetch or the directions provider fails
\* (None, [], None at the point of call) the composition ends as a failed
\* plan: no exception escapes, no leg, no total
C16_ProviderFailureContained ==
    (pc \in {"done", "crashed"} /\ (GeocodeMissed \/ ModeDatasetEmpty \/ LegFailed)) =>
        /\ pc = "done"
        /\ fault = ""
        /\ routes = <<>>
        /\ notice.total = <<>>

\* the mode found no parking, no station, no stop or no shared line
NoSolution ==
    /\ pc = "done"
    /\ Composed
    /\ plan = <<>>
    /\ notice.text # "Error calculating route"

NoSolutionTexts == NoParkingTexts \cup NoStationTexts \cup NoConnectionTexts

\* C17: a no-solution outcome and a failed leg request are each reported by
\* a non-empty notice displayed as a failure, never as a success, and the
\* two notices differ
C17_FailureNotices ==
    /\ NoSolution =>
          /\ notice.text # ""
          /\ notice.text \notin LegFailureTexts
          /\ shown_as(page, notice.text) \in {"st.warning", "st.error"}
    /\ (pc = "done" /\ LegFailed) =>
          /\ notice.text # ""
          /\ notice.text \notin NoSolutionTexts
          /\ shown_as(page, notice.text) \in {"st.warning", "st.error"}

\* the stops that carry at least one line: lineas a str naming a line
WithLines(stops) ==
    SelectSeq(stops, LAMBDA r : /\ "lineas" \in DOMAIN r.fields
                                /\ r.fields.lineas # NULL_LINEAS
                                /\ line_set(r.fields) # {})

\* C18: a stop whose line list is missing, empty or null shares no line with
\* any stop: the pairing does not raise and selects what it selects over the
\* stops that carry lines
C18_MalformedLinesShareNothing ==
    [][BusPairingStep =>
        LET ca == CandA
            cb == CandB
        IN  (~ca.raised /\ ~cb.raised) =>
              /\ pc' # "crashed"
              /\ fault' = ""
              /\ notice'.text # "Error calculating route"
              /\ sel' = select_bus(page, hashseed, WithLines(buses),
                                   start_coords, end_coords).sel]_vars

-----------------------------------------------------------------------------
(* Properties of the pass over the legs (checked under Spec)                *)

\* C24: a composition is one pass that ends in a plan or a failure (no
\* exception escapes); every leg is requested at most once, in plan order,
\* with no retry; once the facilities are found all 1, 2 or 3 legs of the mode
\* are requested before any answer is looked at, a failed earlier leg included
C24_SinglePass ==
    /\ pc # "crashed"
    /\ fault = ""
    /\ Len(requests) <= Len(plan)
    /\ \A i \in 1..Len(requests) : requests[i] = plan[i]
    /\ Len(provider_calls) <= Len(requests)
    /\ plan # <<>> => Len(plan) = FullLegCount
    /\ pc = "request" => routes = <<>> /\ notice = EmptyNotice
    /\ (pc \in {"inspect", "done"} /\ plan # <<>>) =>
          /\ Len(requests) = FullLegCount
          /\ Len(responses) = FullLegCount

\* C25: no get_route call is made before the facilities are chosen, and in a
\* no-solution outcome (no parking, no station, no bus candidates, no
\* line-sharing pair) no call is made at all and no facility marker is put
C25_SelectionBeforeProvider ==
    /\ pc \in {"start", "select"} => requests = <<>> /\ provider_calls = <<>>
    /\ requests # <<>> =>
          /\ Composed
          /\ (\/ transport_mode \in {"Valenbisi", "Bus"}
              \/ transport_mode = "Car" /\ use_parking = "Parking garage") =>
                 sel # NoSel /\ markers # <<>>
    /\ (\/ NoSolution
        \/ notice.text \in NoSolutionTexts) =>
          /\ requests = <<>>
          /\ provider_calls = <<>>
          /\ markers = <<>>
          /\ routes = <<>>

\* C25 happens: two bus stops with coordinates share no line, and the
\* composition ends with the no-connection notice, nothing requested or marked
C25_Witness ==
    /\ pc = "done"
    /\ transport_mode = "Bus"
    /\ Len(buses) = 2
    /\ \A i \in 1..2 : WellFormed(Get(buses[i].fields, "geo_point_2d", None))
    /\ notice.text \in {"(!) No direct bus line found between nearby stops",
                        "No bus line connects stops near origin and destination"}
    /\ requests = <<>>
    /\ markers = <<>>

-----------------------------------------------------------------------------
(* Properties of the page across runs (checked under SpecSession)           *)

\* the signature of the widget values of the current run
CurrentSignature == signature(page, transport_mode, start_point, end_point, use_parking)

\* a page run has come to its end, by the last statement or by an exception
RunEnded == pc \in {"shown", "crashed"} /\ run # "none"

\* a step that starts a page run
PageRunStep == pc \in {"idle", "shown", "crashed"} /\ runs' = runs + 1 /\ run' # "none"

\* C23: a page run recomputes the route exactly when no signature is stored or
\* the signature of (mode, start, end, sub-option) differs from the stored
\* one; with unchanged inputs the run completes without recomputing and the
\* stored map and notice stay; after every run the stored signature is the
\* current one
C23_RebuildGuard ==
    /\ [][PageRunStep =>
            /\ (run' \in {"rebuild", "cached"}) <=> inputs_changed(session.key, CurrentSignature')
            /\ ~inputs_changed(session.key, CurrentSignature') =>
                  /\ run' = "skip"
                  /\ pc' = "shown"
                  /\ fault' = ""
                  /\ session' = session]_vars
    /\ [](RunEnded => session.key = <<CurrentSignature>>)

\* the run that just ended composed a route and ended in failure: a geocode
\* miss, no solution, or a failed leg (no leg is drawn)
FailedComposition == RunEnded /\ run = "rebuild" /\ routes = <<>>

\* C29: a composition that ends in failure still stores the input signature;
\* a following run with unchanged inputs makes no new attempt (no provider
\* call) and shows the same failure; only changed inputs start a new attempt
C29_FailureIsRemembered ==
    /\ [](FailedComposition => session.key = <<CurrentSignature>>)
    /\ [][(FailedComposition /\ PageRunStep /\ input_vars' = input_vars) =>
             /\ run' = "skip"
             /\ pc' = "shown"
             /\ fault' = ""
             /\ provider_calls' = <<>>
             /\ session' = session]_vars
    /\ [][(PageRunStep /\ run' = "rebuild") =>
             (session.key = <<>> \/ input_vars' # input_vars)]_vars

\* two compositions were given the same page, mode, start, end, sub-option,
\* datasets and provider answers
SameGiven(c1, c2) ==
    /\ c1.page = c2.page
    /\ c1.inputs = c2.inputs
    /\ c1.data = c2.data
    /\ c1.responses = c2.responses

\* C21: two compositions with identical mode, start, end, sub-option,
\* datasets and provider responses yield the same legs, markers, total and,
\* in Bus mode, the same chosen line
C21_Deterministic ==
    \A c1, c2 \in composed :
        SameGiven(c1, c2) =>
            /\ c1.routes = c2.routes
            /\ c1.markers = c2.markers
            /\ c1.notice = c2.notice
            /\ c1.line = c2.line

\* C22: no operation of the core modifies the datasets handed to it: through
\* any sequence of compositions the parking, station, stop and traffic lists
\* stay as they were
C22_DatasetsUntouched == [][data_vars' = data_vars]_vars

\* C22 happens: two compositions over the datasets have returned, one of them
\* a bus plan that read the stops and was drawn
C22_Witness ==
    /\ pc = "shown"
    /\ Cardinality(composed) >= 2
    /\ \E c \in composed : c.inputs[1] = "Bus" /\ Len(c.routes) = 3
    /\ \A c \in composed : c.data = <<parkings, bikes, buses, traffic>>

-----------------------------------------------------------------------------
(* Properties of the selection's inputs (checked under Spec)                *)

\* non-spatial fields of a record: bikes available, free slots, capacity, suppressed flag
NonSpatial == [available |-> 0, free |-> 0, plazastota |-> 0, suprimida |-> 1]

\* the same dataset with other non-spatial fields
Vary(records) == [i \in 1..Len(records) |-> [fields |-> records[i].fields @@ NonSpatial]]

\* a record without its non-spatial fields
Spatial(f) == [k \in (DOMAIN f) \ (DOMAIN NonSpatial) |-> f[k]]

\* the facilities of a selection, by name, coordinate and lines
SpatialSel(s) ==
    [k \in DOMAIN s |-> IF k \in {"parking", "st_start", "st_end", "stop_start", "stop_end"}
                         THEN Spatial(s[k]) ELSE s[k]]

\* the selection over the datasets with other non-spatial fields
VariedSelect ==
    select(page, hashseed, transport_mode, use_parking, Vary(parkings), Vary(bikes),
           Vary(buses), start_coords, end_coords)

\* the selection that the datasets with other non-spatial fields give, when it
\* chooses the same facilities as s
VariedSel(s) ==
    [k \in DOMAIN s |-> IF k \in {"parking", "st_start", "st_end", "stop_start", "stop_end"}
                               /\ s[k] # <<>>
                         THEN Spatial(s[k]) @@ NonSpatial ELSE s[k]]

\* C27: the selection reads coordinates and line sets only: over datasets that
\* differ in non-spatial fields the same parking, stations and stop pair are
\* chosen and the same legs are requested; the facilities being the same, the
\* routes drawn and the total are the same
C27_SelectionReadsCoordinatesOnly ==
    /\ [][(pc = "select" /\ pc' \in {"request", "done"}) =>
            LET varied == VariedSelect
            IN  /\ varied.plan = plan'
                /\ varied.markers = markers'
                /\ SpatialSel(varied.sel) = SpatialSel(sel')
                /\ varied.outcome = "fail" => varied.notice = notice']_vars
    /\ [][(pc = "inspect" /\ pc' = "done") =>
            finish(page, transport_mode, use_parking, VariedSel(sel), responses, traffic)
                = [routes |-> routes', notice |-> notice']]_vars

\* C27 happens: a bus plan over two stops with coordinates and lines is drawn
C27_Witness ==
    /\ pc = "done"
    /\ transport_mode = "Bus"
    /\ Len(buses) = 2
    /\ sel.kind = "stops"
    /\ sel.stop_start # sel.stop_end
    /\ Len(routes) = 3
    /\ notice.total # <<>>

-----------------------------------------------------------------------------
(* Properties of the chat map page (checked under SpecChat)                 *)

\* s is a leading part of t
IsPrefix(s, t) == Len(s) <= Len(t) /\ SubSeq(t, 1, Len(s)) = s

\* C30: after a change of language or the clear button the history is one
\* turn, the assistant greeting in the current language, and there is no
\* point and no route, whatever was asked before; between resets the
\* history, the points and the routes only grow
C30_ResetClearsSession ==
    /\ [](chat_event \in {"clear", "language"} =>
            /\ history = <<[assistant |-> translations_assistant(language)]>>
            /\ points = <<>>
            /\ chat_routes = <<>>)
    /\ [][chat_event' = "query" =>
            /\ IsPrefix(history, history')
            /\ IsPrefix(points, points')
            /\ IsPrefix(chat_routes, chat_routes')]_vars

\* C30 happens: a reset has just been served while the language is English,
\* and the session holds the single greeting and no point
C30_Witness ==
    /\ chat_event \in {"clear", "language"}
    /\ language = "en"
    /\ Len(history) = 1
    /\ points = <<>>

====
